---------------------------- MODULE Spec2Model ----------------------------
(***************************************************************************)
(* A model of the things-dxt request -> script -> result pipeline:         *)
(*   - the template renderer (AppleScriptSanitizer, server/utils.js),      *)
(*   - the execution engine (JXAExecutor, server/jxa-executor.js, and      *)
(*     ThingsExtension.executeAppleScript, server/index.js),               *)
(*   - the JXA operations acting on the Things document (jxa/src).         *)
(*   - the decoders and validators of text (DataParser, ThingsValidator,   *)
(*     DateConverter), the mapping of parameters and the search,           *)
(*   - the start of the JXA server (ThingsServer).                         *)
(* Text is modelled as a sequence of characters; a character is a          *)
(* one-element string, and a parameter key is one atomic element.          *)
(***************************************************************************)
EXTENDS Integers, Sequences, FiniteSets, TLC

VARIABLES
    \* --- template renderer ---
    template,     \* the template handed to buildScript
    params,       \* Object.entries(params): a sequence of <<key, value>>
    script,       \* the value buildScript returned
    rpc,          \* "ready" | "built" | "off"
    \* --- servers and execution engines ---
    server,       \* "jxa" (ThingsServer) | "applescript" (ThingsExtension) | "none"
    spc,          \* where the CallTool handler stands
    request,      \* the CallTool request being handled
    epc,          \* where the current engine call stands
    purpose,      \* what the engine call is for: "check" | "tool" | "none"
    loaded,       \* the engine call has its script
    proc,         \* what the interpreter process of the engine call did
    parsed,       \* what parseResponse made of the process's stdout
    engineResult, \* what the engine call returned or threw
    callSpawned,  \* interpreter processes spawned by the current engine call
    spawned,      \* interpreter processes spawned since the request came in
    response,     \* what the CallTool handler returned or threw
    \* --- the Things document and the JXA operations ---
    item,         \* the item the document holds under ItemId
    itemBefore,   \* the item as it was when the last request came in
    tparams,      \* the parameters of the last request
    tpc,          \* "idle" | "ran" | "off"
    \* --- decoders and converters of text ---
    codecIn,      \* the function applied and the text handed to it
    codecOut,     \* what the function returned or threw
    cpc,          \* "ready" | "done" | "off"
    \* --- the start of the JXA server ---
    startup,      \* ensureScriptsReady: "checking" | "building" | "finished" | "off"
    scripts,      \* whether the bundled scripts are in the build directory
    connected,    \* whether start() has connected the transport
    toolCalls     \* the CallTool requests handled so far

renderVars == <<template, params, script, rpc>>

execVars == <<server, spc, request, epc, purpose, loaded, proc, parsed,
              engineResult, callSpawned, spawned, response>>

thingsVars == <<item, itemBefore, tparams, tpc>>

codecVars == <<codecIn, codecOut, cpc>>

startVars == <<startup, scripts, connected, toolCalls>>

vars == <<template, params, script, rpc, server, spc, request, epc, purpose,
          loaded, proc, parsed, engineResult, callSpawned, spawned, response,
          item, itemBefore, tparams, tpc,
          codecIn, codecOut, cpc, startup, scripts, connected, toolCalls>>

-----------------------------------------------------------------------------
(* Characters *)

BS  == "\\"
DQ  == "\""
SQ  == "'"
LF  == "\n"
CR  == "\r"
TAB == "\t"
DOLLAR == "$"
\* The grave accent, which the module's own syntax cannot quote.
BT  == "GRAVE"
AMP == "&"
LB  == "{"
RB  == "}"

\* The longest value, in pieces, that a call supplies.
MaxValuePieces == 2

-----------------------------------------------------------------------------
(* String.prototype.replace(regexp /g, replacement string) *)

IsPrefixAt(s, i, pat) ==
    /\ i + Len(pat) - 1 <= Len(s)
    /\ \A j \in 1..Len(pat) : s[i + j - 1] = pat[j]

\* The replacement string's patterns: $$, $&, $GRAVE and $' are interpreted; a $ before
\* anything else (there are no capture groups in the pattern) stays literal.
RECURSIVE ExpandReplacement(_, _, _, _, _)
ExpandReplacement(repl, i, before, match, after) ==
    IF i > Len(repl) THEN <<>>
    ELSE IF repl[i] = DOLLAR /\ i < Len(repl) /\ repl[i + 1] = DOLLAR
        THEN <<DOLLAR>> \o ExpandReplacement(repl, i + 2, before, match, after)
    ELSE IF repl[i] = DOLLAR /\ i < Len(repl) /\ repl[i + 1] = AMP
        THEN match \o ExpandReplacement(repl, i + 2, before, match, after)
    ELSE IF repl[i] = DOLLAR /\ i < Len(repl) /\ repl[i + 1] = BT
        THEN before \o ExpandReplacement(repl, i + 2, before, match, after)
    ELSE IF repl[i] = DOLLAR /\ i < Len(repl) /\ repl[i + 1] = SQ
        THEN after \o ExpandReplacement(repl, i + 2, before, match, after)
    ELSE <<repl[i]>> \o ExpandReplacement(repl, i + 1, before, match, after)

RECURSIVE ReplaceAllFrom(_, _, _, _)
ReplaceAllFrom(s, i, pat, repl) ==
    LET starts == {j \in i..Len(s) : IsPrefixAt(s, j, pat)}
        m == CHOOSE j \in starts : \A k \in starts : j <= k
    IN  IF Len(pat) = 0 \/ starts = {} THEN SubSeq(s, i, Len(s))
        ELSE SubSeq(s, i, m - 1)
             \o ExpandReplacement(repl, 1, SubSeq(s, 1, m - 1), pat,
                                  SubSeq(s, m + Len(pat), Len(s)))
             \o ReplaceAllFrom(s, m + Len(pat), pat, repl)

ReplaceAll(s, pat, repl) == ReplaceAllFrom(s, 1, pat, repl)

-----------------------------------------------------------------------------
(* AppleScriptSanitizer *)

\* s.replace(/c/g, to) for a one-character pattern and a literal replacement
RECURSIVE ReplaceChar(_, _, _)
ReplaceChar(s, c, to) ==
    IF s = <<>> THEN <<>>
    ELSE (IF Head(s) = c THEN to ELSE <<Head(s)>>) \o ReplaceChar(Tail(s), c, to)

\* s.replace(/\r?\n/g, '\\n'): a line feed, with the carriage return before it
\* when there is one; a carriage return alone is not matched.
RECURSIVE ReplaceNewlines(_)
ReplaceNewlines(s) ==
    IF s = <<>> THEN <<>>
    ELSE IF Head(s) = CR /\ Len(s) >= 2 /\ s[2] = LF
        THEN <<BS, "n">> \o ReplaceNewlines(Tail(Tail(s)))
    ELSE IF Head(s) = LF
        THEN <<BS, "n">> \o ReplaceNewlines(Tail(s))
    ELSE <<Head(s)>> \o ReplaceNewlines(Tail(s))

sanitizeString(input) ==
    LET r1 == ReplaceChar(input, BS, <<BS, BS>>)
        r2 == ReplaceChar(r1, DQ, <<BS, DQ>>)
        r3 == ReplaceChar(r2, SQ, <<BS, SQ>>)
        r4 == ReplaceNewlines(r3)
    IN  ReplaceChar(r4, TAB, <<BS, "t">>)

Placeholder(key) == <<LB, LB, key, RB, RB>>

RECURSIVE buildScriptFrom(_, _, _)
buildScriptFrom(scr, entries, i) ==
    IF i > Len(entries) THEN scr
    ELSE buildScriptFrom(
             ReplaceAll(scr, Placeholder(entries[i][1]), sanitizeString(entries[i][2])),
             entries, i + 1)

buildScript(tpl, entries) == buildScriptFrom(tpl, entries, 1)

-----------------------------------------------------------------------------
(* Inputs of the renderer *)

Keys == {"name", "notes"}

\* What a supplied value is made of: the destination format's quote, escape
\* and line-break characters, the replacement-pattern characters, ordinary
\* text, and a placeholder token for another key.
Pieces ==
    { <<DQ>>, <<BS>>, <<SQ>>, <<LF>>, <<CR>>, <<TAB>>, <<DOLLAR>>, <<BT>>,
      <<AMP>>, <<"x">>, Placeholder("notes") }

RECURSIVE Concat(_)
Concat(ss) == IF ss = <<>> THEN <<>> ELSE Head(ss) \o Concat(Tail(ss))

Values == { Concat(ps) : ps \in UNION { [1..n -> Pieces] : n \in 0..MaxValuePieces } }

\* Templates whose placeholder sits inside a double-quoted literal, as in
\*   set theItem to to do id "{{id}}"            (utils.js, showItem)
\*   ... with properties {name: "{{name}}"       (applescript-templates.js)
\* QuotedPre and QuotedPost are the text around the placeholder.
QuotedPre  == <<"s", "e", "t", " ", DQ>>
QuotedPost == <<DQ, LF, "e", "n", "d">>

QuotedTemplate == QuotedPre \o Placeholder("name") \o QuotedPost

TwoFieldTemplate ==
    <<"{", "n", ":", DQ>> \o Placeholder("name") \o <<DQ, ",", "o", ":", DQ>>
    \o Placeholder("notes") \o <<DQ, "}">>

Templates == { QuotedTemplate, TwoFieldTemplate }

ParamLists ==
    { <<<<"name", v>>>> : v \in Values }
    \cup { <<<<"name", v>>, <<"notes", w>>>> : v \in Values, w \in {<<"x">>, <<DQ>>} }
    \cup { <<<<"notes", w>>, <<"name", v>>>> : v \in Values, w \in {<<"x">>, <<DQ>>} }

-----------------------------------------------------------------------------
(* Errors and their messages *)

\* The substrings the code looks for in a message.
NOT_FOUND      == "not found"
ENOENT         == "ENOENT"
TIMEOUT        == "timeout"
PERMISSION     == "permission"
AUTHORIZED     == "authorized"
NOT_AUTHORIZED == "not authorized"
ISNT_RUNNING   == "Application isn't running"

\* A message: the template it was built from, the operation the template
\* names ("" when it names none) and which of the substrings above the
\* whole text holds.
Msg(form, op, marks) == [form |-> form, op |-> op, marks |-> marks]

\* Text that holds "not authorized" holds "authorized".
Closed(marks) == IF NOT_AUTHORIZED \in marks THEN marks \cup {AUTHORIZED} ELSE marks

Raw(marks) == Msg("raw", "", Closed(marks))

\* An error object: McpError or not, the McpError code, error.name, error.code.
Err(mcp, ecode, name, code, msg) ==
    [mcp |-> mcp, ecode |-> ecode, name |-> name, code |-> code, msg |-> msg]

PlainError(msg) == Err(FALSE, "none", "Error", "none", msg)

McpError(ecode, msg) == Err(TRUE, ecode, "McpError", "none", msg)

NoError == Err(FALSE, "none", "none", "none", Msg("none", "", {}))

Has(msg, mark) == mark \in msg.marks

-----------------------------------------------------------------------------
(* JXAExecutor *)

timeout == 30000

\* A JSON value, as far as parseResponse reads it: its type, its success key
\* ("absent" | "true" | "false" | "other"), its data ("absent" or the name of
\* a payload) and its error (absent, an object with no message, or an object
\* whose message holds the given marks).
Json(t, success, data, err) == [t |-> t, success |-> success, data |-> data, err |-> err]

NoErrorKey == [kind |-> "absent", marks |-> {}]

ErrorNoMessage == [kind |-> "nomessage", marks |-> {}]

ErrorMessage(marks) == [kind |-> "message", marks |-> marks]

Bare(t) == Json(t, "absent", "absent", NoErrorKey)

\* The trimmed text an AppleScript returned
Text(tok) == Json("text", "absent", tok, NoErrorKey)

Undefined == Bare("undefined")

Payload(d) == IF d = "absent" THEN Undefined ELSE Json("payload", "absent", d, NoErrorKey)

EnvelopeMessages == { {}, {NOT_FOUND}, {TIMEOUT}, {ISNT_RUNNING}, {NOT_AUTHORIZED}, {PERMISSION} }

JsonValues ==
    { Bare(t) : t \in {"null", "number", "string", "boolean", "array", "object"} }
    \cup { Json("object", "true", d, NoErrorKey) : d \in {"absent", "d1", "d2"} }
    \cup { Json("object", "other", d, NoErrorKey) : d \in {"absent", "d1"} }
    \cup { Json("object", "false", "absent", e) :
             e \in {NoErrorKey, ErrorNoMessage}
                   \cup { ErrorMessage(m) : m \in EnvelopeMessages } }
    \cup { Json("object", "false", "d1", ErrorMessage({})) }

\* What a process wrote to stdout: nothing but white space, text that is not
\* JSON (with the marks its text holds), or the text of a JSON value.
Stdout(kind, marks, json) == [kind |-> kind, marks |-> marks, json |-> json]

JxaStdouts ==
    { Stdout("blank", {}, Undefined) }
    \cup { Stdout("invalid", m, Undefined) : m \in { {}, {NOT_FOUND}, {TIMEOUT} } }
    \cup { Stdout("json", {}, v) : v \in JsonValues }

Returned(v) == [ok |-> TRUE, value |-> v, error |-> NoError]

Thrown(e) == [ok |-> FALSE, value |-> Undefined, error |-> e]

NoResult == [ok |-> FALSE, value |-> Undefined, error |-> NoError]

\* parseResponse that takes undecodable output for an empty result
parseResponseLenient(stdout) ==
    IF stdout.kind # "json" THEN Returned(Bare("array"))
    ELSE IF stdout.json.success = "true" THEN Returned(Payload(stdout.json.data))
    ELSE Returned(stdout.json)

parseResponse(stdout) ==
    IF stdout.kind = "blank"
        THEN Thrown(PlainError(Msg("EmptyResponse", "", {})))
    ELSE IF stdout.kind = "invalid"
        \* JSON.parse throws a SyntaxError, whose message quotes the text
        THEN Thrown(PlainError(Msg("InvalidJson", "", stdout.marks)))
    ELSE IF stdout.json.t = "null"
        \* parsed.success on null: a TypeError, rethrown as it is
        THEN Thrown(Err(FALSE, "none", "TypeError", "none", Msg("TypeError", "", {})))
    ELSE IF stdout.json.success = "false"
        \* parsed.error?.message || 'Unknown JXA error'
        THEN IF stdout.json.err.kind # "message"
                THEN Thrown(PlainError(Msg("UnknownJxaError", "", {})))
                ELSE Thrown(PlainError(Raw(stdout.json.err.marks)))
    ELSE IF stdout.json.success = "true"
        THEN Returned(Payload(stdout.json.data))
    ELSE Returned(stdout.json)

\* executeScript's catch
CatchExecuteScript(e) ==
    IF e.code = "ETIMEDOUT"
        THEN McpError("InternalError", Msg("JxaTimedOut", "", {}))
    ELSE IF Has(e.msg, ISNT_RUNNING)
        THEN McpError("InternalError", Msg("NotRunning", "", {}))
    ELSE IF Has(e.msg, NOT_AUTHORIZED)
        THEN McpError("InternalError", Msg("AccessDenied", "", {}))
    ELSE e

\* A process outcome: "exit0" with its output, or "rejected" with the error
\* execFile rejects with; cause and runMs say what happened to the process.
Proc(kind, cause, runMs, stdout, stderr, error) ==
    [kind |-> kind, cause |-> cause, runMs |-> runMs, stdout |-> stdout,
     stderr |-> stderr, error |-> error]

NoStderr == [present |-> FALSE, marks |-> {}]

Stderr(marks) == [present |-> TRUE, marks |-> marks]

NoProc == Proc("none", "none", 0, Stdout("blank", {}, Undefined), NoStderr, NoError)

executeScript(p) ==
    IF p.kind = "rejected" THEN Thrown(CatchExecuteScript(p.error))
    ELSE IF p.stderr.present
        THEN Thrown(CatchExecuteScript(
                 PlainError(Msg("JxaStderr", "", Closed(p.stderr.marks)))))
    ELSE LET r == parseResponse(p.stdout)
         IN  IF r.ok THEN r ELSE Thrown(CatchExecuteScript(r.error))

createMcpError(error, operation) ==
    IF Has(error.msg, NOT_FOUND) \/ Has(error.msg, ENOENT)
        THEN McpError("InternalError",
                      Msg("OpNotAvailable", operation, error.msg.marks))
    ELSE IF Has(error.msg, TIMEOUT) \/ error.code = "ETIMEDOUT"
        THEN McpError("InternalError",
                      Msg("OpTimedOut", operation, error.msg.marks))
    ELSE IF Has(error.msg, PERMISSION) \/ Has(error.msg, AUTHORIZED)
        THEN McpError("InternalError",
                      Msg("OpPermissionDenied", operation, error.msg.marks))
    ELSE McpError("InternalError", Msg("OpFailed", operation, error.msg.marks))

\* execute's catch
CatchExecute(e, operation) == IF e.mcp THEN e ELSE createMcpError(e, operation)

\* execute after executeScript returned: the debug log line reads
\* JSON.stringify(result).length, which throws when result is undefined.
AfterExecuteScript(r, operation) ==
    IF ~r.ok THEN Thrown(CatchExecute(r.error, operation))
    ELSE IF r.value = Undefined
        THEN Thrown(CatchExecute(
                 Err(FALSE, "none", "TypeError", "none", Msg("TypeError", "", {})),
                 operation))
    ELSE r

\* loadScript: readFile's outcome "ok" | "ENOENT" | "EACCES"
loadScript(operation, fileOutcome) ==
    IF fileOutcome = "ok" THEN Returned(Bare("string"))
    ELSE IF fileOutcome = "ENOENT"
        THEN Thrown(McpError("InternalError",
                             Msg("ScriptNotFound", operation, {NOT_FOUND})))
    ELSE Thrown(Err(FALSE, "none", "Error", fileOutcome, Raw({PERMISSION})))

\* An engine that runs the script again after a failure
AfterProcessRetry(r) == IF r.ok THEN "done" ELSE "spawn"

\* execute once executeScript has settled: the call is over, whatever the
\* outcome
AfterProcess(r) == "done"

-----------------------------------------------------------------------------
(* What an osascript process can do *)

\* Marks held by the text of the command line, which execFile and exec quote
\* in the message of a rejection: "Command failed: <command>\n<stderr>".
\* The command line holds the script and the parameters.
CommandText == { {}, {NOT_FOUND} }

\* error.code of the rejection after the child was killed on timeout.  The
\* code tests for 'ETIMEDOUT'; execFile and exec kill the child and reject
\* with killed: true, signal: 'SIGTERM' and no code.
TimeoutCodes == { "ETIMEDOUT", "none" }

Rejection(code, marks) == Err(FALSE, "none", "Error", code, Raw(marks))

Rejected(cause, runMs, error) ==
    Proc("rejected", cause, runMs, Stdout("blank", {}, Undefined), NoStderr, error)

Rejections ==
    { Rejected("timeout", timeout + 1, Rejection(c, x)) :
          c \in TimeoutCodes, x \in CommandText }
    \cup { Rejected("notRunning", 10, Rejection("1", x \cup {ISNT_RUNNING})) :
          x \in CommandText }
    \cup { Rejected("notAuthorized", 10, Rejection("1", x \cup {m})) :
          x \in CommandText, m \in {NOT_AUTHORIZED, AUTHORIZED} }
    \cup { Rejected("maxBuffer", 10,
                    Rejection("ERR_CHILD_PROCESS_STDIO_MAXBUFFER", {})) }
    \cup { Rejected("failed", 10, Rejection("1", x)) : x \in CommandText }

Exited(stdout, stderr) == Proc("exit0", "none", 10, stdout, stderr, NoError)

StderrTexts == { {}, {ISNT_RUNNING}, {NOT_AUTHORIZED} }

JxaOutcomes ==
    Rejections
    \cup { Exited(s, NoStderr) : s \in JxaStdouts }
    \cup { Exited(Stdout("blank", {}, Undefined), Stderr(m)) : m \in StderrTexts }

\* What an AppleScript prints, trimmed
AsTexts == { "", "true", "false", "not_found", "completed" }

AsOutcomes ==
    Rejections
    \cup { Exited(Stdout("text", {}, Text(t)), NoStderr) : t \in AsTexts }
    \cup { Exited(Stdout("blank", {}, Undefined), Stderr(m)) : m \in StderrTexts }

-----------------------------------------------------------------------------
(* ThingsExtension (the AppleScript server) *)

executeAppleScript(p) ==
    IF p.kind = "rejected"
        THEN IF p.error.code = "ETIMEDOUT"
                THEN Thrown(McpError("InternalError", Msg("AsTimedOut", "", {})))
                ELSE Thrown(McpError("InternalError",
                                     Msg("AsFailed", "", p.error.msg.marks)))
    ELSE IF p.stderr.present
        THEN Thrown(McpError("InternalError",
                             Msg("AsFailed", "", Closed(p.stderr.marks))))
    ELSE Returned(p.stdout.json)

\* validateThingsRunning, given what executeAppleScript returned or threw
validateThingsRunning(r) ==
    IF ~r.ok
        THEN IF r.error.mcp THEN Thrown(r.error)
             ELSE Thrown(McpError("InternalError", Msg("CheckFailed", "", {})))
    ELSE IF r.value # Text("true")
        THEN Thrown(McpError("InternalError", Msg("NotRunning", "", {})))
    ELSE Returned(Undefined)

maxLength == 1000

WhiteSpace == { " ", LF, CR, TAB }

RECURSIVE TrimStart(_)
TrimStart(s) ==
    IF s # <<>> /\ Head(s) \in WhiteSpace THEN TrimStart(Tail(s)) ELSE s

RECURSIVE TrimEnd(_)
TrimEnd(s) ==
    IF s # <<>> /\ s[Len(s)] \in WhiteSpace
        THEN TrimEnd(SubSeq(s, 1, Len(s) - 1))
        ELSE s

Trim(s) == TrimEnd(TrimStart(s))

\* An argument as the client sent it: a string, or a value of another type
Str(s) == [t |-> "string", s |-> s]

NotStr(t) == [t |-> t, s |-> <<>>]

InvalidParams(form) == Thrown(McpError("InvalidParams", Msg(form, "", {})))

validateStringInput(input) ==
    IF input.t # "string" THEN InvalidParams("MustBeString")
    ELSE IF Len(input.s) = 0 THEN InvalidParams("CannotBeEmpty")
    ELSE IF Len(input.s) > maxLength THEN InvalidParams("TooLong")
    ELSE IF \E i \in 1..Len(input.s) : input.s[i] \in {DQ, SQ, BS}
        THEN InvalidParams("InvalidCharacters")
    ELSE Returned(Trim(input.s))

-----------------------------------------------------------------------------
(* Items of the Things document and parameters of a request *)

\* A key of the parameters: absent (undefined), null, or a value
Field(k, v) == [k |-> k, v |-> v]

\* A date string YYYY-MM-DD, and the Date parseLocalDate makes of it:
\* new Date(year, month - 1, day, 0, 0, 0, 0)
DateString(y, m, d) == [y |-> y, m |-> m, d |-> d]

NoDate == [year |-> 0, monthIndex |-> 0, day |-> 0]

\* An item as the operations read and write it
Item(kind, name, notes, tagNames, status, activationDate, dueDate) ==
    [kind |-> kind, name |-> name, notes |-> notes, tagNames |-> tagNames,
     status |-> status, activationDate |-> activationDate, dueDate |-> dueDate]

NoItem == Item("none", "", "", <<>>, "open", NoDate, NoDate)

Absent(v) == Field("absent", v)

\* Parameters with no key but the operation and the id
NoParams ==
    [operation |-> "none", id |-> <<>>, name |-> Absent(""),
     notes |-> Absent(""), tags |-> Absent(<<>>), completed |-> Absent(""),
     canceled |-> Absent(""), activation_date |-> Absent(DateString(0, 0, 0)),
     due_date |-> Absent(DateString(0, 0, 0))]

-----------------------------------------------------------------------------
(* The positional wire format: what the templates write, what DataParser reads *)

\* s.split(sep): the pieces of s between the occurrences of the character sep
RECURSIVE Split(_, _)
Split(s, sep) ==
    IF \A i \in 1..Len(s) : s[i] # sep THEN <<s>>
    ELSE LET i == CHOOSE k \in 1..Len(s) :
                      s[k] = sep /\ \A j \in 1..(k - 1) : s[j] # sep
         IN  <<SubSeq(s, 1, i - 1)>> \o Split(SubSeq(s, i + 1, Len(s)), sep)

\* parseInt(s) without the fallback: what is not a number stays not a number
parseIntNoFallback(s) ==
    LET digits == <<"0", "1", "2", "3", "4", "5", "6", "7", "8", "9">>
        IsDigit(c) == \E d \in 1..10 : digits[d] = c
        Value(c) == (CHOOSE d \in 1..10 : digits[d] = c) - 1
        t == TrimStart(s)
        RECURSIVE Read(_, _)
        Read(i, acc) ==
            IF i <= Len(t) /\ IsDigit(t[i]) THEN Read(i + 1, 10 * acc + Value(t[i]))
            ELSE acc
    IN  IF t # <<>> /\ IsDigit(t[1]) THEN Read(1, 0) ELSE -1

\* parseInt(s) || 0: white space is skipped, then the leading decimal digits
\* are read; without a digit the result is NaN, which || turns into 0.
parseIntOr0(s) ==
    LET digits == <<"0", "1", "2", "3", "4", "5", "6", "7", "8", "9">>
        IsDigit(c) == \E d \in 1..10 : digits[d] = c
        Value(c) == (CHOOSE d \in 1..10 : digits[d] = c) - 1
        t == TrimStart(s)
        RECURSIVE Read(_, _)
        Read(i, acc) ==
            IF i <= Len(t) /\ IsDigit(t[i]) THEN Read(i + 1, 10 * acc + Value(t[i]))
            ELSE acc
    IN  IF t # <<>> /\ IsDigit(t[1]) THEN Read(1, 0) ELSE 0

\* The type a search template writes in front of each record
TypeText(entity) ==
    CASE entity = "todo"    -> <<"t", "o", "d", "o">>
      [] entity = "project" -> <<"p", "r", "o", "j", "e", "c", "t">>
      [] entity = "area"    -> <<"a", "r", "e", "a">>
      [] OTHER                 -> <<>>

\* The properties a template writes for each item, in the order of writing.
\* All are followed by tab but the last, which is followed by linefeed.
TemplateColumns(entity) ==
    CASE entity = "todos" ->
            <<"id", "name", "notes", "due date", "activation date", "status",
              "creation date", "modification date", "completion date",
              "project", "area", "tag names">>
      [] entity = "projects" ->
            <<"id", "name", "notes", "due date", "activation date", "status",
              "creation date", "modification date", "completion date",
              "area", "to do count", "tag names">>
      [] entity = "areas" ->
            <<"id", "name", "project count", "to do count", "tag names">>
      [] entity = "todo" ->
            <<"type", "id", "name", "notes", "due date", "activation date",
              "status", "project", "area">>
      [] entity = "project" ->
            <<"type", "id", "name", "notes", "due date", "activation date",
              "status", "area">>
      [] entity = "area" -> <<"type", "id", "name">>

\* The fields a decoder reads, parts[0] first: the name of the field, the
\* property it stands for and how the column is converted.
DecoderColumns(entity) ==
    LET F(field, from, kind) == [field |-> field, from |-> from, kind |-> kind]
        T(field, from) == F(field, from, "text")
        head == <<T("id", "id"), T("name", "name"), T("notes", "notes"),
                  T("deadline", "due date"), T("due_date", "activation date"),
                  T("status", "status")>>
        tags == F("tags", "tag names", "tags")
        type == F("type", "type", "type")
    IN  CASE entity = "todos" ->
                head \o <<T("creation_date", "creation date"),
                          T("modification_date", "modification date"),
                          T("completion_date", "completion date"),
                          T("project", "project"), T("area", "area"), tags>>
          [] entity = "projects" ->
                head \o <<T("creation_date", "creation date"), T("area", "area"),
                          F("todo_count", "to do count", "count"), tags>>
          [] entity = "areas" ->
                <<T("id", "id"), T("name", "name"),
                  F("project_count", "project count", "count"),
                  F("todo_count", "to do count", "count"), tags>>
          [] entity = "todo" ->
                <<type>> \o head \o <<T("project", "project"), T("area", "area")>>
          [] entity = "project" -> <<type>> \o head \o <<T("area", "area")>>
          [] entity = "area" -> <<type, T("id", "id"), T("name", "name")>>

\* What a template writes for one item: the columns, each followed by tab
\* but the last, which is followed by linefeed.
WireLine(cols) ==
    LET RECURSIVE From(_)
        From(i) ==
            IF i > Len(cols) THEN <<LF>>
            ELSE cols[i] \o (IF i < Len(cols) THEN <<TAB>> ELSE <<>>) \o From(i + 1)
    IN  From(1)

\* The line of an item: its properties in the order of TemplateColumns.  A
\* missing value is written as the empty text.
EmitLine(entity, it) ==
    WireLine([i \in 1..Len(TemplateColumns(entity)) |-> it[TemplateColumns(entity)[i]]])

\* DataParser.parseTodos, parseProjects, parseAreas and parseSearchResults
\* (called with the type of the search): the list of decoded records.
parseOutput(entity, output) ==
    LET cols == DecoderColumns(entity)
        Convert(kind, parts, i) ==
            CASE kind = "type"  -> TypeText(entity)
              [] kind = "count" ->
                    IF i <= Len(parts) THEN parseIntOr0(parts[i]) ELSE 0
              [] kind = "tags"  ->
                    IF i <= Len(parts) /\ parts[i] # <<>>
                    THEN Split(parts[i], ",") ELSE <<>>
              [] OTHER -> IF i <= Len(parts) THEN parts[i] ELSE <<>>
        Record(line) ==
            LET parts == Split(line, TAB)
            IN  [f \in {cols[i].field : i \in 1..Len(cols)} |->
                    LET i == CHOOSE k \in 1..Len(cols) : cols[k].field = f
                    IN  Convert(cols[i].kind, parts, i)]
        lines == Split(Trim(output), LF)
        RECURSIVE Each(_)
        Each(i) ==
            IF i > Len(lines) THEN <<>>
            ELSE (IF Trim(lines[i]) # <<>> THEN <<Record(lines[i])>> ELSE <<>>)
                    \o Each(i + 1)
    IN  IF Trim(output) = <<>> THEN <<>> ELSE Each(1)

\* The input of a decoder or converter: the function, the text handed to
\* it and, for a text made from items or columns, what it was made from.
CodecInput(fn, entity, how, items, cols, text) ==
    [fn |-> fn, entity |-> entity, how |-> how, items |-> items,
     cols |-> cols, text |-> text]

NoInput == CodecInput("none", "none", "none", <<>>, <<>>, <<>>)

-----------------------------------------------------------------------------
(* The servers as a state machine *)

Request(name, arg) == [name |-> name, arg |-> arg]

NoRequest == Request("none", NotStr("undefined"))

\* The body of a tool response: {success, error} of createSuccessResponse
ToolResult(success, error) ==
    Json("object", success, "absent", [kind |-> "code", marks |-> {error}])

\* tools/call names the JXA server is asked for; it hands any name on
JxaOperations == { "update_todo", "show_item", "no_such_tool" }

AsTools == { "cancel_todo", "no_such_tool" }

NameInputs ==
    { NotStr("undefined"), NotStr("number"),
      Str(<<>>), Str(<<"a">>), Str(<<" ", "a", LF>>),
      Str(<<"a", DQ>>), Str(<<SQ>>), Str(<<BS, "a">>),
      Str([i \in 1..(maxLength + 1) |-> "a"]) }

ExecInit ==
    /\ template = <<>>
    /\ params = <<>>
    /\ script = <<>>
    /\ rpc = "off"
    /\ server \in {"jxa", "applescript"}
    /\ spc = "idle"
    /\ request = NoRequest
    /\ epc = "idle"
    /\ purpose = "none"
    /\ loaded = FALSE
    /\ proc = NoProc
    /\ parsed = NoResult
    /\ engineResult = NoResult
    /\ callSpawned = 0
    /\ spawned = 0
    /\ response = NoResult
    /\ item = NoItem
    /\ itemBefore = NoItem
    /\ tparams = NoParams
    /\ tpc = "off"
    /\ codecIn = NoInput
    /\ codecOut = NoResult
    /\ cpc = "off"
    /\ startup = "off"
    /\ scripts = FALSE
    /\ connected = FALSE
    /\ toolCalls = <<>>

\* A new engine call: nothing loaded, nothing spawned, no outcome yet
BeginCall(pc, what) ==
    /\ epc' = pc
    /\ purpose' = what
    /\ loaded' = FALSE
    /\ proc' = NoProc
    /\ parsed' = NoResult
    /\ engineResult' = NoResult
    /\ callSpawned' = 0

\* ThingsServer's CallTool handler up to its await: the arguments are
\* processed and jxaExecutor.execute(name, processedArgs) is called.
JxaReceive ==
    /\ server = "jxa"
    /\ spc = "idle"
    /\ \E name \in JxaOperations : request' = Request(name, NotStr("object"))
    /\ spc' = "executing"
    /\ BeginCall("loading", "tool")
    /\ UNCHANGED <<server, spawned, response>>
    /\ UNCHANGED <<renderVars, thingsVars, codecVars, startVars>>

\* execute: const script = await this.loadScript(operation)
EngineLoad ==
    /\ epc = "loading"
    /\ \E fileOutcome \in {"ok", "ENOENT", "EACCES"} :
          LET r == loadScript(request.name, fileOutcome)
          IN  IF r.ok
                  THEN /\ loaded' = TRUE
                       /\ epc' = "spawn"
                       /\ UNCHANGED engineResult
                  ELSE /\ loaded' = FALSE
                       /\ epc' = "done"
                       /\ engineResult' = Thrown(CatchExecute(r.error, request.name))
    /\ UNCHANGED <<server, spc, request, purpose, proc, parsed, callSpawned,
                   spawned, response>>
    /\ UNCHANGED <<renderVars, thingsVars, codecVars, startVars>>

\* execFileAsync('osascript', ...) / execAsync(command, ...): the process starts
EngineSpawn ==
    /\ epc = "spawn"
    /\ epc' = "running"
    /\ callSpawned' = callSpawned + 1
    /\ spawned' = spawned + 1
    /\ UNCHANGED <<server, spc, request, purpose, loaded, proc, parsed,
                   engineResult, response>>
    /\ UNCHANGED <<renderVars, thingsVars, codecVars, startVars>>

\* The process ends, or is killed, and JXAExecutor.execute runs to its end.
JxaProcessEnds ==
    /\ server = "jxa"
    /\ epc = "running"
    /\ \E p \in JxaOutcomes :
          LET r == AfterExecuteScript(executeScript(p), request.name)
          IN  /\ proc' = p
              /\ parsed' = IF p.kind = "exit0" /\ ~p.stderr.present
                              THEN parseResponse(p.stdout)
                              ELSE NoResult
              /\ engineResult' = r
              /\ epc' = AfterProcess(r)
    /\ UNCHANGED <<server, spc, request, purpose, loaded, callSpawned, spawned,
                   response>>
    /\ UNCHANGED <<renderVars, thingsVars, codecVars, startVars>>

\* ThingsServer's CallTool handler after its await: the result is returned as
\* the content of the response, an error is logged and thrown again.
JxaFinish ==
    /\ server = "jxa"
    /\ spc = "executing"
    /\ epc = "done"
    /\ response' = engineResult
    /\ spc' = "replied"
    /\ UNCHANGED <<server, request, epc, purpose, loaded, proc, parsed,
                   engineResult, callSpawned, spawned>>
    /\ UNCHANGED <<renderVars, thingsVars, codecVars, startVars>>

\* ThingsExtension's CallTool handler up to its first await:
\* await this.validateThingsRunning(), which runs an AppleScript.
AsReceive ==
    /\ server = "applescript"
    /\ spc = "idle"
    /\ \E name \in AsTools, arg \in NameInputs : request' = Request(name, arg)
    /\ spc' = "checking"
    /\ BeginCall("spawn", "check")
    /\ UNCHANGED <<server, spawned, response>>
    /\ UNCHANGED <<renderVars, thingsVars, codecVars, startVars>>

\* The process ends, or is killed, and executeAppleScript runs to its end.
AsProcessEnds ==
    /\ server = "applescript"
    /\ epc = "running"
    /\ \E p \in AsOutcomes :
          LET r == executeAppleScript(p)
          IN  /\ proc' = p
              /\ engineResult' = r
              /\ epc' = AfterProcess(r)
    /\ UNCHANGED <<server, spc, request, purpose, loaded, parsed, callSpawned,
                   spawned, response>>
    /\ UNCHANGED <<renderVars, thingsVars, codecVars, startVars>>

\* The handler from the end of validateThingsRunning to its next await or its
\* end: the switch on the tool name, and changeItemStatus up to
\* await this.executeAppleScript(script).
AsChecked ==
    /\ server = "applescript"
    /\ spc = "checking"
    /\ epc = "done"
    /\ LET running == validateThingsRunning(engineResult)
           name == validateStringInput(request.arg)
       IN  IF ~running.ok
               THEN /\ response' = Thrown(running.error)
                    /\ spc' = "replied"
                    /\ UNCHANGED <<epc, purpose, loaded, proc, parsed,
                                   engineResult, callSpawned>>
           ELSE IF request.name \notin {"cancel_todo"}
               THEN /\ response' = Thrown(McpError("MethodNotFound",
                                                   Msg("UnknownTool", "", {})))
                    /\ spc' = "replied"
                    /\ UNCHANGED <<epc, purpose, loaded, proc, parsed,
                                   engineResult, callSpawned>>
           ELSE IF ~name.ok
               THEN /\ response' = Thrown(name.error)
                    /\ spc' = "replied"
                    /\ UNCHANGED <<epc, purpose, loaded, proc, parsed,
                                   engineResult, callSpawned>>
           ELSE /\ BeginCall("spawn", "tool")
                /\ spc' = "executing"
                /\ UNCHANGED response
    /\ UNCHANGED <<server, request, spawned>>
    /\ UNCHANGED <<renderVars, thingsVars, codecVars, startVars>>

\* changeItemStatus after await this.executeAppleScript(script)
AsFinish ==
    /\ server = "applescript"
    /\ spc = "executing"
    /\ epc = "done"
    /\ response' =
          IF ~engineResult.ok THEN Thrown(engineResult.error)
          ELSE IF engineResult.value = Text("not_found")
              THEN Returned(ToolResult("false", "TO-DO_NOT_FOUND"))
          ELSE Returned(ToolResult("true", "none"))
    /\ spc' = "replied"
    /\ UNCHANGED <<server, request, epc, purpose, loaded, proc, parsed,
                   engineResult, callSpawned, spawned>>
    /\ UNCHANGED <<renderVars, thingsVars, codecVars, startVars>>

ExecNext ==
    \/ JxaReceive
    \/ EngineLoad
    \/ EngineSpawn
    \/ JxaProcessEnds
    \/ JxaFinish
    \/ AsReceive
    \/ AsProcessEnds
    \/ AsChecked
    \/ AsFinish

SpecExec == ExecInit /\ [][ExecNext]_vars

-----------------------------------------------------------------------------
(* The JXA operations on the Things document (jxa/src) *)

parseLocalDate(dateString) ==
    IF dateString.k # "value" \/ dateString.v = DateString(0, 0, 0) THEN NoDate
    ELSE [year |-> dateString.v.y, monthIndex |-> dateString.v.m - 1,
          day |-> dateString.v.d]

\* parseLocalDate on the text of the date string: split('-').map(Number),
\* then new Date(year, month - 1, day, 0, 0, 0, 0), which has no date when a
\* component is no number and otherwise counts months and days beyond
\* their range on into the next (or back into the previous) year and month.
parseLocalDateText(dateString) ==
    LET parts == Split(dateString.s, "-")
        digits == <<"0", "1", "2", "3", "4", "5", "6", "7", "8", "9">>
        IsNumber(t) == \A i \in 1..Len(t) : \E d \in 1..10 : digits[d] = t[i]
        nan == \/ Len(parts) < 3
               \/ \E i \in 1..3 : ~IsNumber(Trim(parts[i]))
        Date(valid, y, mi, d) ==
            [null |-> FALSE, valid |-> valid, year |-> y, monthIndex |-> mi, day |-> d]
        DaysIn(y, mi) ==
            CASE mi = 1 -> IF y % 4 = 0 /\ (y % 100 # 0 \/ y % 400 = 0) THEN 29 ELSE 28
              [] mi \in {3, 5, 8, 10} -> 30
              [] OTHER -> 31
        RECURSIVE MakeDay(_, _, _)
        MakeDay(y, mi, d) ==
            IF mi < 0 THEN MakeDay(y - 1, mi + 12, d)
            ELSE IF mi > 11 THEN MakeDay(y + 1, mi - 12, d)
            ELSE IF d < 1
                THEN (IF mi = 0 THEN MakeDay(y - 1, 11, d + 31)
                      ELSE MakeDay(y, mi - 1, d + DaysIn(y, mi - 1)))
            ELSE IF d > DaysIn(y, mi) THEN MakeDay(y, mi + 1, d - DaysIn(y, mi))
            ELSE Date(TRUE, y, mi, d)
        year == parseIntOr0(parts[1])
    IN  IF dateString.t = "undefined" \/ (dateString.t = "string" /\ dateString.s = <<>>)
            THEN Returned([null |-> TRUE, valid |-> FALSE, year |-> 0,
                           monthIndex |-> 0, day |-> 0])
        ELSE IF dateString.t # "string"
            THEN Thrown(Err(FALSE, "none", "TypeError", "none", Msg("NotAFunction", "", {})))
        ELSE IF nan THEN Returned(Date(FALSE, 0, 0, 0))
        ELSE Returned(MakeDay(IF year < 100 THEN 1900 + year ELSE year,
                              parseIntOr0(parts[2]) - 1, parseIntOr0(parts[3])))

\* tags.join(', '): the tags with a separator between them
RECURSIVE Join(_)
Join(tags) ==
    IF Len(tags) = 0 THEN <<>>
    ELSE IF Len(tags) = 1 THEN <<tags[1]>>
    ELSE <<tags[1], ", ">> \o Join(Tail(tags))

formatTags(tags) ==
    IF tags.k # "value" \/ Len(tags.v) = 0 THEN <<>> ELSE Join(tags.v)

\* parseTags without the trim: the pieces between the commas as they are
parseTagsUntrimmed(tagString) ==
    LET pieces == Split(tagString, ",")
    IN  IF tagString = <<>> THEN <<>>
        ELSE SelectSeq(pieces, LAMBDA t : t # <<>>)

\* parseTags: the pieces between the commas, trimmed, the empty ones dropped
parseTags(tagString) ==
    LET pieces == Split(tagString, ",")
        RECURSIVE Kept(_)
        Kept(i) ==
            IF i > Len(pieces) THEN <<>>
            ELSE (IF Trim(pieces[i]) # <<>> THEN <<Trim(pieces[i])>> ELSE <<>>)
                    \o Kept(i + 1)
    IN  IF tagString = <<>> THEN <<>> ELSE Kept(1)

\* SearchOperations.searchAdvanced: the to-dos of the application, then those
\* of the logbook, the canceled ones of the application and those of the
\* trash as the flags ask, filtered by the query and by the tags.  things is
\* what the application answers: its to-dos, the to-dos of the logbook and
\* of the trash, and whether asking for its to-dos fails.
searchAdvanced(things, p) ==
    LET Lower(t) == [k \in 1..Len(t) |->
                        CASE t[k] = "X" -> "x" [] t[k] = "Y" -> "y" [] OTHER -> t[k]]
        query == Lower(p.query)
        Includes(t, q) == \E k \in 0..Len(t) : IsPrefixAt(t, k + 1, q)
        Filter(list, Keep(_)) ==
            LET RECURSIVE From(_)
                From(k) == IF k > Len(list) THEN <<>>
                           ELSE (IF Keep(list[k]) THEN <<list[k]>> ELSE <<>>)
                                    \o From(k + 1)
            IN  From(1)
        IsCanceled(t) == t.status = "canceled"
        Matches(t) == Includes(Lower(t.name), query) \/ Includes(Lower(t.notes), query)
        Tagged(t) == \E k \in 1..Len(p.tags), n \in 1..Len(parseTags(t.tagNames)) :
                        parseTags(t.tagNames)[n] = p.tags[k]
        todos == things.toDos
                    \o (IF p.completed THEN things.logbook ELSE <<>>)
                    \o (IF p.canceled THEN Filter(things.toDos, IsCanceled) ELSE <<>>)
                    \o (IF p.trashed THEN things.trash ELSE <<>>)
        matches == Filter(todos, Matches)
    IN  IF things.fails THEN <<>>
        ELSE IF Len(p.tags) > 0 THEN Filter(matches, Tagged)
        ELSE matches

\* An update that writes the tags whether or not the key is there
TagNamesAlways(todo, p) == formatTags(p.tags)

\* if (params.tags !== undefined) todo.tagNames = formatTags(params.tags)
TagNames(todo, p) ==
    IF p.tags.k # "absent" THEN formatTags(p.tags) ELSE todo.tagNames

\* if (params.completed === true) ... else if (params.canceled === true) ...
StatusFollowsFlags(todo, p) ==
    IF p.completed = Field("value", "true") THEN "completed"
    ELSE IF p.canceled = Field("value", "true") THEN "canceled"
    ELSE IF Field("value", "false") \in {p.completed, p.canceled} THEN "open"
    ELSE todo.status

Status(todo, p) ==
    IF p.completed = Field("value", "true") THEN "completed"
    ELSE IF p.canceled = Field("value", "true") THEN "canceled"
    ELSE todo.status

FarFuture == Field("value", DateString(2099, 12, 31))

\* The activation date after the update.  things.schedule can fail, which
\* scheduleItem and the clearing branch swallow: sched says which of the
\* schedule commands went through.
ActivationDate(todo, p, sched) ==
    IF p.activation_date.k = "absent" THEN todo.activationDate
    ELSE IF p.activation_date.k = "value"
            /\ p.activation_date.v # DateString(0, 0, 0)
        THEN IF sched = "none" THEN todo.activationDate
             ELSE parseLocalDate(p.activation_date)
    ELSE IF sched = "none" THEN todo.activationDate
    ELSE IF sched = "first" THEN parseLocalDate(FarFuture)
    ELSE NoDate

ScheduleOutcomes == { "none", "first", "both" }

\* TodoOperations.update / ProjectOperations.update on the item found
update(todo, p, sched) ==
    [ kind           |-> todo.kind,
      name           |-> IF p.name.k # "absent" THEN p.name.v ELSE todo.name,
      notes          |-> IF p.notes.k # "absent" THEN p.notes.v ELSE todo.notes,
      tagNames       |-> TagNames(todo, p),
      status         |-> Status(todo, p),
      activationDate |-> ActivationDate(todo, p, sched),
      dueDate        |-> IF p.due_date.k # "absent"
                             THEN parseLocalDate(p.due_date)
                             ELSE todo.dueDate ]

ItemId == <<"i", "1">>

Ids == { ItemId, <<"x", "9">> }

\* things.toDos.byId / things.projects.byId / things.areas.byId find the item
Found(operation, id, todo) ==
    /\ id = ItemId
    /\ operation = "update_project" => todo.kind = "project"

\* The text of the error thrown when the item is not found
NotFoundMessage(operation) ==
    IF operation = "update_project" THEN ErrorMessage({})
    ELSE ErrorMessage({NOT_FOUND})

\* run(argv): the envelope written to stdout
run(p, todo) ==
    IF Found(p.operation, p.id, todo)
        THEN Json("object", "true", "item", NoErrorKey)
        ELSE Json("object", "false", "absent", NotFoundMessage(p.operation))

-----------------------------------------------------------------------------
(* Requests against the Things document, as a state machine *)

MaxKeys == 2

ParamKeys ==
    { "name", "notes", "tags", "completed", "canceled", "activation_date",
      "due_date" }

DateInputs ==
    { Absent(DateString(0, 0, 0)), Field("null", DateString(0, 0, 0)),
      Field("value", DateString(2025, 3, 9)) }

\* The parameters a client can send with an update, at most MaxKeys keys
\* besides the id
UpdateParams(operation) ==
    { p \in [ operation       : {operation},
              id              : Ids,
              name            : {Absent(""), Field("value", "n1")},
              notes           : {Absent(""), Field("value", "m1")},
              tags            : {Absent(<<>>), Field("null", <<>>), Field("value", <<>>),
                                 Field("value", <<"b", "c">>)},
              completed       : {Absent(""), Field("value", "true"),
                                 Field("value", "false")},
              canceled        : {Absent(""), Field("value", "true"),
                                 Field("value", "false")},
              activation_date : DateInputs,
              due_date        : DateInputs ] :
        Cardinality({ key \in ParamKeys : p[key].k # "absent" }) <= MaxKeys }

ShowParams == { [NoParams EXCEPT !.operation = "show_item", !.id = id] : id \in Ids }

ThingsInit ==
    /\ template = <<>>
    /\ params = <<>>
    /\ script = <<>>
    /\ rpc = "off"
    /\ server \in {"jxa", "applescript"}
    /\ spc = "idle"
    /\ request = NoRequest
    /\ epc = "idle"
    /\ purpose = "none"
    /\ loaded = FALSE
    /\ proc = NoProc
    /\ parsed = NoResult
    /\ engineResult = NoResult
    /\ callSpawned = 0
    /\ spawned = 0
    /\ response = NoResult
    /\ item \in { Item(kind, "n0", "", tagNames, "open", NoDate, NoDate) :
                    kind \in {"todo", "project"},
                    tagNames \in {<<>>, <<"a", ", ", "b">>} }
    /\ itemBefore = item
    /\ tparams = NoParams
    /\ tpc = "idle"
    /\ codecIn = NoInput
    /\ codecOut = NoResult
    /\ cpc = "off"
    /\ startup = "off"
    /\ scripts = FALSE
    /\ connected = FALSE
    /\ toolCalls = <<>>

\* The JXA server receives a tools/call; execute loads the script and starts
\* osascript with the script and the parameters.
ThingsReceive ==
    /\ server = "jxa"
    /\ tpc = "idle"
    /\ \E p \in UpdateParams("update_todo") \cup UpdateParams("update_project")
                 \cup ShowParams :
          /\ tparams' = p
          /\ request' = Request(p.operation, NotStr("object"))
    /\ itemBefore' = item
    /\ tpc' = "called"
    /\ spc' = "executing"
    /\ epc' = "running"
    /\ purpose' = "tool"
    /\ loaded' = TRUE
    /\ callSpawned' = 1
    /\ spawned' = 1
    /\ UNCHANGED <<server, proc, parsed, engineResult, response, item>>
    /\ UNCHANGED <<renderVars, codecVars, startVars>>

\* run(argv) has acted on the document, leaving todo; the envelope it prints
\* is decoded by execute and handed to the client.
Ran(todo) ==
    LET out == Exited(Stdout("json", {}, run(tparams, item)), NoStderr)
    IN  /\ server = "jxa"
        /\ tpc = "called"
        /\ item' = todo
        /\ tpc' = "ran"
        /\ proc' = out
        /\ parsed' = parseResponse(out.stdout)
        /\ engineResult' = AfterExecuteScript(executeScript(out), tparams.operation)
        /\ response' = engineResult'
        /\ epc' = "done"
        /\ spc' = "replied"
        /\ UNCHANGED <<server, request, purpose, loaded, callSpawned, spawned,
                       itemBefore, tparams>>
        /\ UNCHANGED <<renderVars, codecVars, startVars>>

\* The schedule commands that can go through for the parameters
Schedules(p) ==
    IF p.activation_date.k = "absent" THEN {"none"} ELSE ScheduleOutcomes

\* case 'update_todo': TodoOperations.update(things, params)
UpdateTodo ==
    /\ tparams.operation = "update_todo"
    /\ \E sched \in Schedules(tparams) :
          Ran(IF Found(tparams.operation, tparams.id, item)
                  THEN update(item, tparams, sched) ELSE item)

\* case 'update_project': ProjectOperations.update(things, params)
UpdateProject ==
    /\ tparams.operation = "update_project"
    /\ \E sched \in Schedules(tparams) :
          Ran(IF Found(tparams.operation, tparams.id, item)
                  THEN update(item, tparams, sched) ELSE item)

\* case 'show_item': SearchOperations.showItem(things, params)
ShowItem ==
    /\ tparams.operation = "show_item"
    /\ Ran(item)

\* ToolHandlers.showItem of the AppleScript server, from its validation to
\* its reply: the script returns "not_found" when the to do is not there.
AsShowItem ==
    /\ server = "applescript"
    /\ tpc = "idle"
    /\ \E p \in ShowParams :
          LET itemId == validateStringInput(Str(p.id))
              out == Exited(Stdout("text", {},
                                   Text(IF p.id = ItemId THEN "Found: " ELSE "not_found")),
                            NoStderr)
              result == executeAppleScript(out)
          IN  /\ itemId.ok
              /\ tparams' = p
              /\ request' = Request(p.operation, Str(p.id))
              /\ proc' = out
              /\ engineResult' = result
              /\ response' = IF result.value = Text("not_found")
                                 THEN Returned(ToolResult("false", "ITEM_NOT_FOUND"))
                                 ELSE Returned(ToolResult("true", "none"))
    /\ itemBefore' = item
    /\ tpc' = "ran"
    /\ callSpawned' = 1
    /\ spawned' = 1
    /\ purpose' = "tool"
    /\ epc' = "done"
    /\ spc' = "replied"
    /\ UNCHANGED <<server, item, loaded, parsed>>
    /\ UNCHANGED <<renderVars, codecVars, startVars>>

\* The request is over; the server waits for the next one.
ThingsReply ==
    /\ tpc = "ran"
    /\ tpc' = "idle"
    /\ itemBefore' = item
    /\ tparams' = NoParams
    /\ spc' = "idle"
    /\ request' = NoRequest
    /\ epc' = "idle"
    /\ purpose' = "none"
    /\ loaded' = FALSE
    /\ proc' = NoProc
    /\ parsed' = NoResult
    /\ engineResult' = NoResult
    /\ callSpawned' = 0
    /\ spawned' = 0
    /\ response' = NoResult
    /\ UNCHANGED <<server, item>>
    /\ UNCHANGED <<renderVars, codecVars, startVars>>

ThingsNext ==
    \/ ThingsReceive
    \/ UpdateTodo
    \/ UpdateProject
    \/ ShowItem
    \/ AsShowItem
    \/ ThingsReply

SpecThings == ThingsInit /\ [][ThingsNext]_vars

-----------------------------------------------------------------------------
(* The renderer as a state machine *)

RenderInit ==
    /\ template \in Templates
    /\ params \in ParamLists
    /\ script = <<>>
    /\ rpc = "ready"
    /\ server = "none"
    /\ spc = "off"
    /\ request = NoRequest
    /\ epc = "off"
    /\ purpose = "none"
    /\ loaded = FALSE
    /\ proc = NoProc
    /\ parsed = NoResult
    /\ engineResult = NoResult
    /\ callSpawned = 0
    /\ spawned = 0
    /\ response = NoResult
    /\ item = NoItem
    /\ itemBefore = NoItem
    /\ tparams = NoParams
    /\ tpc = "off"
    /\ codecIn = NoInput
    /\ codecOut = NoResult
    /\ cpc = "off"
    /\ startup = "off"
    /\ scripts = FALSE
    /\ connected = FALSE
    /\ toolCalls = <<>>

BuildScript ==
    /\ rpc = "ready"
    /\ script' = buildScript(template, params)
    /\ rpc' = "built"
    /\ UNCHANGED <<template, params>>
    /\ UNCHANGED <<execVars, thingsVars, codecVars, startVars>>

RenderNext == BuildScript

SpecRender == RenderInit /\ [][RenderNext]_vars

-----------------------------------------------------------------------------
(* Dates: ThingsValidator.validateDateInput and DateConverter *)

\* /^\d{4}-\d{2}-\d{2}$/.test(s)
MatchesDateRegex(s) ==
    /\ Len(s) = 10
    /\ \A i \in 1..10 :
          IF i \in {5, 8} THEN s[i] = "-"
          ELSE s[i] \in {"0", "1", "2", "3", "4", "5", "6", "7", "8", "9"}

\* What the date parser of the runtime may do with a day of 29 to 31 that
\* the month does not have: the language leaves it to the implementation,
\* which either has no date for it or counts on into the next month (V8).
Runtimes == {"invalid", "rolls over"}

\* A date parser that knows no leap years
NewDateNoLeapYears(s, runtime) ==
    LET y == parseIntOr0(SubSeq(s, 1, 4))
        m == parseIntOr0(SubSeq(s, 6, 7))
        d == parseIntOr0(SubSeq(s, 9, 10))
        days == CASE m = 2 -> 28
                  [] m \in {4, 6, 9, 11} -> 30
                  [] OTHER -> 31
    IN  IF m \in 1..12 /\ d \in 1..days
            THEN [nan |-> FALSE, year |-> y, month |-> m, day |-> d]
            ELSE [nan |-> TRUE, year |-> 0, month |-> 0, day |-> 0]

\* new Date(s) and new Date(s + 'T00:00:00') for a text that matches the
\* regex: the year, month and day of the date, or no date (NaN).
NewDate(s, runtime) ==
    LET y == parseIntOr0(SubSeq(s, 1, 4))
        m == parseIntOr0(SubSeq(s, 6, 7))
        d == parseIntOr0(SubSeq(s, 9, 10))
        leap == y % 4 = 0 /\ (y % 100 # 0 \/ y % 400 = 0)
        days == CASE m = 2 -> IF leap THEN 29 ELSE 28
                  [] m \in {4, 6, 9, 11} -> 30
                  [] OTHER -> 31
        Date(yy, mm, dd) == [nan |-> FALSE, year |-> yy, month |-> mm, day |-> dd]
    IN  IF m \notin 1..12 \/ d \notin 1..31 THEN [nan |-> TRUE, year |-> 0, month |-> 0, day |-> 0]
        ELSE IF d <= days THEN Date(y, m, d)
        ELSE IF runtime = "rolls over" THEN Date(y, m + 1, d - days)
        ELSE [nan |-> TRUE, year |-> 0, month |-> 0, day |-> 0]

validateDateInput(input, runtime) ==
    IF input.t # "string" THEN InvalidParams("MustBeDateString")
    ELSE IF ~MatchesDateRegex(input.s) THEN InvalidParams("MustBeDateFormat")
    ELSE IF NewDate(input.s, runtime).nan THEN InvalidParams("NotAValidDate")
    ELSE Returned(input.s)

\* DateConverter.toAppleScriptDate.  The name of a month is one element of
\* the text; the day and the year are written in decimal digits.
toAppleScriptDate(isoDate, runtime) ==
    LET months == <<"January", "February", "March", "April", "May", "June",
                    "July", "August", "September", "October", "November",
                    "December">>
        digits == <<"0", "1", "2", "3", "4", "5", "6", "7", "8", "9">>
        RECURSIVE Decimal(_)
        Decimal(n) ==
            IF n < 10 THEN <<digits[n + 1]>>
            ELSE Decimal(n \div 10) \o <<digits[(n % 10) + 1]>>
        date == NewDate(isoDate.s, runtime)
    IN  IF isoDate.t # "string" \/ isoDate.s = <<>>
            THEN Thrown(PlainError(Msg("DateMustBeNonEmptyString", "", {})))
        ELSE IF ~MatchesDateRegex(isoDate.s)
            THEN Thrown(PlainError(Msg("DateMustBeDateFormat", "", {})))
        ELSE IF date.nan
            THEN Thrown(PlainError(Msg("InvalidDate", "", {})))
        ELSE IF date.year < 1904 \/ date.year > 2040
            THEN Thrown(PlainError(Msg("YearOutsideRange", "", {})))
        ELSE Returned(<<months[date.month], " ">> \o Decimal(date.day)
                        \o <<",", " ">> \o Decimal(date.year))

-----------------------------------------------------------------------------
(* The templates of the tools that create and update, and their parameters *)

\* AppleScriptTemplates.createTodo, createProject and updateTodo: the
\* template made for the mapped parameters p.  A fixed phrase of a template
\* is one element of the text; a placeholder is written as by Placeholder.
ScriptTemplate(tool, p) ==
    LET Truthy(f) == f.k = "value" /\ f.v # <<>>
        Quoted(key) == <<DQ>> \o Placeholder(key) \o <<DQ>>
        If(cond, text) == IF cond THEN text ELSE <<>>
        var == CASE tool = "createTodo"    -> "newTodo"
                 [] tool = "createProject" -> "newProject"
                 [] tool = "updateTodo"    -> "targetTodo"
        tagKeys == <<"tag_0", "tag_1", "tag_2", "tag_3">>
        RECURSIVE TagPlaceholders(_)
        TagPlaceholders(i) ==
            IF i > Len(p.tags.v) THEN <<>>
            ELSE Quoted(tagKeys[i])
                    \o If(i < Len(p.tags.v), <<",", " ">>)
                    \o TagPlaceholders(i + 1)
        tags == If(p.tags.k = "value" /\ Len(p.tags.v) > 0,
                   <<"try", "set tag names of ", var, " to ", "{">>
                       \o TagPlaceholders(1)
                       \o <<"}", "on error", "end try">>)
        toProject == <<"try", "set targetProject to first project whose name is ">>
                        \o Quoted("project")
                        \o <<"move ", var, " to targetProject", "on error", "end try">>
        toArea == <<"try", "set targetArea to first area whose name is ">>
                        \o Quoted("area")
                        \o <<"move ", var, " to targetArea", "on error", "end try">>
        properties ==
            <<"{", "name: ">> \o Quoted("name")
            \o If(Truthy(p.notes), <<", notes: ">> \o Quoted("notes"))
            \o If(Truthy(p.due_date),
                  <<", due date: date ">> \o Quoted("due_date_formatted"))
            \o If(Truthy(p.activation_date),
                  <<", activation date: date ">> \o Quoted("activation_date_formatted"))
            \o <<"}">>
    IN  CASE tool = "createTodo" ->
                <<"tell application ", DQ, "Things3", DQ,
                  "set newTodo to make new to do with properties ">>
                \o properties
                \o (IF Truthy(p.project) THEN toProject
                    ELSE IF Truthy(p.area) THEN toArea ELSE <<>>)
                \o tags
                \o <<"return id of newTodo", "end tell">>
          [] tool = "createProject" ->
                <<"tell application ", DQ, "Things3", DQ,
                  "set newProject to make new project with properties ">>
                \o properties
                \o If(Truthy(p.area), toArea)
                \o tags
                \o <<"return id of newProject", "end tell">>
          [] tool = "updateTodo" ->
                <<"tell application ", DQ, "Things3", DQ, "try",
                  "set targetTodo to first to do whose name is ">>
                \o Quoted("name")
                \o If(Truthy(p.new_name),
                      <<"set name of targetTodo to ">> \o Quoted("new_name"))
                \o If(Truthy(p.notes),
                      <<"set notes of targetTodo to ">> \o Quoted("notes"))
                \o If(Truthy(p.due_date),
                      <<"set due date of targetTodo to date ">>
                          \o Quoted("due_date_formatted"))
                \o If(Truthy(p.activation_date),
                      <<"set activation date of targetTodo to date ">>
                          \o Quoted("activation_date_formatted"))
                \o tags
                \o (IF Truthy(p.project) THEN toProject
                    ELSE IF Truthy(p.area) THEN toArea ELSE <<>>)
                \o <<"return ", DQ, "updated", DQ, "on error",
                     "return ", DQ, "not_found", DQ, "end try", "end tell">>

\* ParameterBuilder.buildParameters(baseParams, tags, dueDate) as
\* executeThingsScript calls it, and Object.entries of what it returns: the
\* keys of baseParams with String(value) for each, a key for each tag and
\* the formatted due date.  The fourth argument of the call, the activation
\* date, has no parameter to receive it.
buildParameters(p, runtime) ==
    LET keys == <<"name", "new_name", "notes", "due_date", "activation_date",
                  "project", "area", "tags">>
        tagKeys == <<"tag_0", "tag_1", "tag_2", "tag_3">>
        RECURSIVE Commas(_, _)
        Commas(list, i) ==
            IF i > Len(list) THEN <<>>
            ELSE list[i] \o (IF i < Len(list) THEN <<",">> ELSE <<>>)
                    \o Commas(list, i + 1)
        String(key) ==
            IF p[key].k = "null" THEN <<"n", "u", "l", "l">>
            ELSE IF key = "tags" THEN Commas(p.tags.v, 1)
            ELSE p[key].v
        RECURSIVE Base(_)
        Base(i) ==
            IF i > Len(keys) THEN <<>>
            ELSE (IF p[keys[i]].k = "absent" THEN <<>>
                  ELSE <<<<keys[i], String(keys[i])>>>>)
                 \o Base(i + 1)
        tagEntries ==
            IF p.tags.k = "value"
                THEN [i \in 1..Len(p.tags.v) |-> <<tagKeys[i], p.tags.v[i]>>]
                ELSE <<>>
        formatted == toAppleScriptDate(Str(p.due_date.v), runtime)
    IN  IF p.due_date.k = "value" /\ p.due_date.v # <<>>
            THEN IF formatted.ok
                    THEN Returned(Base(1) \o tagEntries
                                    \o <<<<"due_date_formatted", formatted.value>>>>)
                    ELSE InvalidParams("InvalidDueDate")
            ELSE Returned(Base(1) \o tagEntries)

-----------------------------------------------------------------------------
(* The decoders and converters as a state machine *)

MaxMissing == 1

MaxItems == 2

Entities == {"todos", "projects", "areas", "todo", "project", "area"}

\* An item as Things holds it: the properties a template reads, those in
\* `missing' without a value.  Each property has a text of its own.
WireItem(entity, missing) ==
    LET Value(p) ==
            CASE p = "type"              -> TypeText(entity)
              [] p = "id"                -> <<"i">>
              [] p = "name"              -> <<"n">>
              [] p = "notes"             -> <<"o">>
              [] p = "due date"          -> <<"d">>
              [] p = "activation date"   -> <<"a">>
              [] p = "status"            -> <<"s">>
              [] p = "creation date"     -> <<"c">>
              [] p = "modification date" -> <<"m">>
              [] p = "completion date"   -> <<"k">>
              [] p = "project"           -> <<"p">>
              [] p = "area"              -> <<"r">>
              [] p = "to do count"       -> <<"7">>
              [] p = "project count"     -> <<"1", "2">>
              [] p = "tag names"         -> <<"x", ",", "y">>
        cols == TemplateColumns(entity)
    IN  [p \in {cols[i] : i \in 1..Len(cols)} |->
            IF p \in missing THEN <<>> ELSE Value(p)]

\* The texts handed to the decoders: blank ones, the output of a template
\* for one or more items, of which the last may lack values, and single lines of any number of columns whose
\* count columns hold any text.
WireInputs ==
    LET Optional == {"notes", "due date", "activation date", "creation date",
                     "modification date", "completion date", "project",
                     "area", "tag names"}
        Missing == {m \in SUBSET Optional : Cardinality(m) <= MaxMissing}
        Lists(e) == {[j \in 1..n |-> IF j = n THEN WireItem(e, m)
                                               ELSE WireItem(e, {})] :
                        n \in 1..MaxItems, m \in Missing}
        RECURSIVE Emit(_, _, _)
        Emit(e, its, i) ==
            IF i > Len(its) THEN <<>>
            ELSE EmitLine(e, its[i]) \o Emit(e, its, i + 1)
        CountTexts == {<<>>, <<"7">>, <<"4", "0">>, <<"x">>, <<"7", "x">>}
        Letters == <<"b", "c", "d", "e", "f", "g", "h", "j", "l", "q", "u", "v">>
        Columns(e, k, g) ==
            [i \in 1..k |->
                CASE DecoderColumns(e)[i].kind = "count" -> g
                  [] DecoderColumns(e)[i].kind = "tags"  -> <<"x", ",", "y">>
                  [] DecoderColumns(e)[i].kind = "type"  -> TypeText(e)
                  [] OTHER -> <<Letters[i]>>]
    IN  {CodecInput("parse", e, "blank", <<>>, <<>>, t) :
            e \in Entities, t \in {<<>>, <<LF>>, <<" ", LF, TAB>>}}
        \cup UNION {{CodecInput("parse", e, "emitted", its, <<>>, Emit(e, its, 1)) :
                        its \in Lists(e)} : e \in Entities}
        \cup UNION {{CodecInput("parse", e, "columns", <<>>, Columns(e, k, g),
                                WireLine(Columns(e, k, g))) :
                        k \in 1..Len(DecoderColumns(e)), g \in CountTexts} :
                    e \in Entities}

\* The values handed to validateStringInput: those a tool call may carry as a
\* name, and names that hold the name of the script interpreter.
StringInputs ==
    LET osascript == <<"o", "s", "a", "s", "c", "r", "i", "p", "t">>
        OSAScript == <<"O", "S", "A", "S", "c", "r", "i", "p", "t">>
    IN  {CodecInput("validateStringInput", "none", arg.t, <<>>, <<>>, arg.s) :
            arg \in NameInputs
                \cup {Str(osascript), Str(OSAScript), Str(<<"a", " ">> \o osascript),
                      Str(osascript \o <<SQ>>), Str(<<" ">>), Str(<<" ", TAB, LF>>)}}

\* The values handed to the date functions: every text YYYY-MM-DD made of a
\* year around the supported range, a month of 00 to 13 and a day of 00 to
\* 32, texts of another form, and values that are no strings.
DateTexts ==
    LET digits == <<"0", "1", "2", "3", "4", "5", "6", "7", "8", "9">>
        Two(n) == <<digits[(n \div 10) + 1], digits[(n % 10) + 1]>>
        Four(n) == Two(n \div 100) \o Two(n % 100)
        Iso == {Four(y) \o <<"-">> \o Two(m) \o <<"-">> \o Two(d) :
                    y \in {1903, 1904, 2024, 2025, 2040, 2041},
                    m \in 0..13, d \in 0..32}
        Other == {Str(<<>>),
                  Str(<<"1", "2", "/", "2", "5", "/", "2", "0", "2", "4">>),
                  Str(<<"2", "0", "2", "5", "-", "1", "-", "0", "5">>),
                  Str(<<"2", "0", "2", "5", "-", "0", "1", "-", "0", "5", LF>>),
                  Str(<<"2", "0", "2", "5", "-", "0", "1", "-", "0", "5", "T">>),
                  Str(<<"2", "0", "2", "5", "-", "a", "b", "-", "0", "5">>),
                  Str(<<"n", "o", "t", "-", "a", "-", "d", "a", "t", "e">>),
                  Str(<<"2", "0", "2", "5", "/", "0", "8", "/", "0", "4">>),
                  NotStr("undefined"), NotStr("number")}
    IN  {CodecInput(fn, "none", arg.t, <<>>, <<>>, arg.s) :
            fn \in {"validateDateInput", "toAppleScriptDate", "parseLocalDate"},
            arg \in {Str(s) : s \in Iso} \cup Other}

MaxTags == 2

\* The lists of tag names handed to formatTags: names of one or more
\* characters, with and without white space, and the empty name.
TagLists ==
    LET Names == {<<"a">>, <<"b", "c">>, <<"a", " ", "b">>, <<" ", "a">>,
                  <<"a", " ">>, <<" ">>, <<>>}
    IN  {CodecInput("parseTags", "none", "list", T, <<>>, <<>>) :
            T \in UNION {[1..n -> Names] : n \in 0..MaxTags}}

\* The inputs of the tools' pipeline: the mapped parameters handed to the
\* templates of createTodo, createProject and updateTodo.
ToolInputs ==
    LET July17 == <<"2", "0", "2", "5", "-", "0", "7", "-", "1", "7">>
        Jan2041 == <<"2", "0", "4", "1", "-", "0", "1", "-", "0", "1">>
        Opt(v) == {Absent(<<>>), Field("value", v)}
        ScriptParams ==
            [name            : {Field("value", <<"n">>)},
             new_name        : Opt(<<"m">>),
             notes           : Opt(<<"o">>) \cup {Field("value", <<>>)},
             due_date        : Opt(July17) \cup {Field("value", Jan2041)},
             activation_date : Opt(July17),
             project         : Opt(<<"p">>),
             area            : Opt(<<"r">>),
             tags            : {Absent(<<>>), Field("null", <<>>), Field("value", <<>>),
                                Field("value", <<<<"a">>>>),
                                Field("value", <<<<"a">>, <<"b", "c">>>>)}]
    IN  {CodecInput(tool, "none", "params", sp, <<>>, <<>>) :
            tool \in {"createTodo", "createProject", "updateTodo"},
            sp \in ScriptParams}

processKeepsNames(args, first) ==
    [ name            |-> args.name,
      when            |-> args.when,
      deadline        |-> args.deadline,
      due_date        |-> IF args.deadline.k = "absent" THEN args.due_date
                          ELSE args.deadline,
      activation_date |-> args.when ]

\* ParameterProcessor.process: the arguments of a tool call under the internal
\* names.  when becomes activation_date and deadline becomes due_date; the
\* older name due_date of the day to work on becomes activation_date as
\* well; every other key keeps its name and value.  When both when and the
\* older due_date are given, first names the one whose value is kept.
process(args, first) ==
    [ name            |-> args.name,
      when            |-> Absent(""),
      deadline        |-> Absent(""),
      due_date        |-> args.deadline,
      activation_date |->
          IF args.when.k = "absent" THEN args.due_date
          ELSE IF args.due_date.k = "absent" THEN args.when
          ELSE IF first = "when" THEN args.when
          ELSE args.due_date ]

\* The arguments of a tool call under the names a caller uses
ProcessInputs ==
    {CodecInput("process", "none", "params", args, <<>>, <<>>) :
        args \in [ name     : {Absent(""), Field("value", "Test")},
                   when     : {Absent(""), Field("value", "2025-08-04"), Field("null", "")},
                   deadline : {Absent(""), Field("value", "2025-08-05"), Field("null", "")},
                   due_date : {Absent(""), Field("value", "2024-12-25")} ]}

\* The searches: what the application holds and the parameters of the call.
\* A list of the application holds a to-do at most once, no to-do is in two
\* of the lists, and the logbook holds no open to-do.
SearchInputs ==
    LET Todo(id, st) ==
            [id |-> id, status |-> st[id],
             name |-> IF id = "t1" THEN <<"X">> ELSE <<"y">>,
             notes |-> IF id = "t1" THEN <<>> ELSE <<"x", "z">>,
             tagNames |-> IF id = "t1" THEN <<"a", ",", " ", "b">> ELSE <<>>]
        Lists == {<<>>, <<"t1">>, <<"t2">>, <<"t2", "t1">>}
        Of(list, st) == [k \in 1..Len(list) |-> Todo(list[k], st)]
        Flag == {"true", "false"}
        Worlds == { w \in [st : [{"t1", "t2"} -> {"open", "completed", "canceled"}],
                            all : Lists, logbook : Lists, trash : Lists \ {<<"t2">>}] :
                        /\ \A k \in 1..Len(w.logbook) : w.st[w.logbook[k]] # "open"
                        /\ \A id \in {"t1", "t2"} :
                              Cardinality({l \in {"all", "logbook", "trash"} :
                                  \E k \in 1..Len(w[l]) : w[l][k] = id}) <= 1 }
    IN  {CodecInput("searchAdvanced", "none", how,
                    [toDos |-> Of(w.all, w.st), logbook |-> Of(w.logbook, w.st),
                     trash |-> Of(w.trash, w.st)],
                    <<completed, canceled, trashed, tag>>, query) :
            how \in {"answers", "fails"},
            w \in Worlds,
            completed \in Flag, canceled \in Flag, trashed \in Flag,
            tag \in {"", "b"},
            query \in {<<>>, <<"x">>}}

CodecInit ==
    /\ template = <<>>
    /\ params = <<>>
    /\ script = <<>>
    /\ rpc = "off"
    /\ server = "none"
    /\ spc = "off"
    /\ request = NoRequest
    /\ epc = "off"
    /\ purpose = "none"
    /\ loaded = FALSE
    /\ proc = NoProc
    /\ parsed = NoResult
    /\ engineResult = NoResult
    /\ callSpawned = 0
    /\ spawned = 0
    /\ response = NoResult
    /\ item = NoItem
    /\ itemBefore = NoItem
    /\ tparams = NoParams
    /\ tpc = "off"
    /\ codecIn \in WireInputs \cup StringInputs \cup DateTexts \cup TagLists
                   \cup ToolInputs \cup SearchInputs \cup ProcessInputs
    /\ codecOut = NoResult
    /\ cpc = "ready"
    /\ startup = "off"
    /\ scripts = FALSE
    /\ connected = FALSE
    /\ toolCalls = <<>>

\* One call of a decoder of DataParser
Parse(entity) ==
    /\ cpc = "ready"
    /\ codecIn.fn = "parse"
    /\ codecIn.entity = entity
    /\ codecOut' = Returned(parseOutput(entity, codecIn.text))
    /\ cpc' = "done"
    /\ UNCHANGED codecIn
    /\ UNCHANGED <<renderVars, execVars, thingsVars, startVars>>

\* One call of ThingsValidator.validateStringInput
ValidateString ==
    /\ cpc = "ready"
    /\ codecIn.fn = "validateStringInput"
    /\ codecOut' = validateStringInput([t |-> codecIn.how, s |-> codecIn.text])
    /\ cpc' = "done"
    /\ UNCHANGED codecIn
    /\ UNCHANGED <<renderVars, execVars, thingsVars, startVars>>

\* One call of ThingsValidator.validateDateInput
ValidateDate ==
    /\ cpc = "ready"
    /\ codecIn.fn = "validateDateInput"
    /\ \E runtime \in Runtimes :
          codecOut' = validateDateInput([t |-> codecIn.how, s |-> codecIn.text], runtime)
    /\ cpc' = "done"
    /\ UNCHANGED codecIn
    /\ UNCHANGED <<renderVars, execVars, thingsVars, startVars>>

\* One call of DateConverter.toAppleScriptDate
ToAppleScriptDate ==
    /\ cpc = "ready"
    /\ codecIn.fn = "toAppleScriptDate"
    /\ \E runtime \in Runtimes :
          codecOut' = toAppleScriptDate([t |-> codecIn.how, s |-> codecIn.text], runtime)
    /\ cpc' = "done"
    /\ UNCHANGED codecIn
    /\ UNCHANGED <<renderVars, execVars, thingsVars, startVars>>

\* formatTags on a list of tag names, then parseTags on the string it made.
\* The string is the names and separators of formatTags, character by
\* character.
FormatThenParseTags ==
    /\ cpc = "ready"
    /\ codecIn.fn = "parseTags"
    /\ LET joined == formatTags(Field("value", codecIn.items))
           RECURSIVE Chars(_)
           Chars(i) ==
               IF i > Len(joined) THEN <<>>
               ELSE (IF joined[i] = ", " THEN <<",", " ">> ELSE joined[i])
                       \o Chars(i + 1)
       IN  codecOut' = Returned(parseTags(Chars(1)))
    /\ cpc' = "done"
    /\ UNCHANGED codecIn
    /\ UNCHANGED <<renderVars, execVars, thingsVars, startVars>>

\* createTodo, createProject and updateTodo of ThingsExtension, from the
\* mapped parameters to the script that executeThingsScript hands to
\* executeAppleScript
ExecuteThingsScript ==
    /\ cpc = "ready"
    /\ codecIn.fn \in {"createTodo", "createProject", "updateTodo"}
    /\ \E runtime \in Runtimes :
          LET buildParams == buildParameters(codecIn.items, runtime)
          IN  codecOut' =
                IF buildParams.ok
                    THEN Returned(buildScript(ScriptTemplate(codecIn.fn, codecIn.items),
                                              buildParams.value))
                    ELSE buildParams
    /\ cpc' = "done"
    /\ UNCHANGED codecIn
    /\ UNCHANGED <<renderVars, execVars, thingsVars, startVars>>

\* One call of parseLocalDate
ParseLocalDate ==
    /\ cpc = "ready"
    /\ codecIn.fn = "parseLocalDate"
    /\ codecOut' = parseLocalDateText([t |-> codecIn.how, s |-> codecIn.text])
    /\ cpc' = "done"
    /\ UNCHANGED codecIn
    /\ UNCHANGED <<renderVars, execVars, thingsVars, startVars>>

\* One call of SearchOperations.searchAdvanced
SearchAdvanced ==
    /\ cpc = "ready"
    /\ codecIn.fn = "searchAdvanced"
    /\ codecOut' = Returned(searchAdvanced(
            [toDos |-> codecIn.items.toDos, logbook |-> codecIn.items.logbook,
             trash |-> codecIn.items.trash, fails |-> codecIn.how = "fails"],
            [query |-> codecIn.text,
             completed |-> codecIn.cols[1] = "true",
             canceled |-> codecIn.cols[2] = "true",
             trashed |-> codecIn.cols[3] = "true",
             tags |-> IF codecIn.cols[4] = "" THEN <<>> ELSE <<<<codecIn.cols[4]>>>>]))
    /\ cpc' = "done"
    /\ UNCHANGED codecIn
    /\ UNCHANGED <<renderVars, execVars, thingsVars, startVars>>

\* The handler of a tool call maps the arguments before it runs the tool
Process ==
    /\ cpc = "ready"
    /\ codecIn.fn = "process"
    /\ \E first \in {"when", "due_date"} :
          codecOut' = Returned(process(codecIn.items, first))
    /\ cpc' = "done"
    /\ UNCHANGED codecIn
    /\ UNCHANGED <<renderVars, execVars, thingsVars, startVars>>

CodecNext ==
    \/ Parse("todos")
    \/ Parse("projects")
    \/ Parse("areas")
    \/ \E type \in {"todo", "project", "area"} : Parse(type)
    \/ ValidateString
    \/ ValidateDate
    \/ ToAppleScriptDate
    \/ FormatThenParseTags
    \/ ExecuteThingsScript
    \/ ParseLocalDate
    \/ SearchAdvanced
    \/ Process

SpecCodec == CodecInit /\ [][CodecNext]_vars

-----------------------------------------------------------------------------
(* The start of the JXA server *)

MaxCalls == 3

\* The state after new ThingsServer() and the call of start(): the constructor
\* has called ensureScriptsReady() without waiting for it, so isReady() is
\* reading the build directory, and start() is connecting the transport.
StartInit ==
    /\ template = <<>>
    /\ params = <<>>
    /\ script = <<>>
    /\ rpc = "off"
    /\ server = "none"
    /\ spc = "off"
    /\ request = NoRequest
    /\ epc = "off"
    /\ purpose = "none"
    /\ loaded = FALSE
    /\ proc = NoProc
    /\ parsed = NoResult
    /\ engineResult = NoResult
    /\ callSpawned = 0
    /\ spawned = 0
    /\ response = NoResult
    /\ item = NoItem
    /\ itemBefore = NoItem
    /\ tparams = NoParams
    /\ tpc = "off"
    /\ codecIn = NoInput
    /\ codecOut = NoResult
    /\ cpc = "off"
    /\ startup = "checking"
    /\ scripts \in BOOLEAN
    /\ connected = FALSE
    /\ toolCalls = <<>>

\* isReady() settles: with the scripts there ensureScriptsReady is done,
\* without them it starts rebuild()
IsReadySettles ==
    /\ startup = "checking"
    /\ startup' = IF scripts THEN "finished" ELSE "building"
    /\ UNCHANGED <<scripts, connected, toolCalls>>
    /\ UNCHANGED <<renderVars, execVars, thingsVars, codecVars>>

\* rebuild() settles: the build wrote the scripts, or it failed and
\* ensureScriptsReady logs the error and returns
RebuildSettles ==
    /\ startup = "building"
    /\ \E built \in BOOLEAN : scripts' = built
    /\ startup' = "finished"
    /\ UNCHANGED <<connected, toolCalls>>
    /\ UNCHANGED <<renderVars, execVars, thingsVars, codecVars>>

\* start(): the transport is connected and requests can come in
Connect ==
    /\ ~connected
    /\ connected' = TRUE
    /\ UNCHANGED <<startup, scripts, toolCalls>>
    /\ UNCHANGED <<renderVars, execVars, thingsVars, codecVars>>

\* The handler of a CallTool request: execute() loads the script of the
\* operation from the build directory and fails when it is not there
CallTool ==
    /\ connected
    /\ Len(toolCalls) < MaxCalls
    /\ \E name \in JxaOperations :
          toolCalls' = Append(toolCalls,
              [name |-> name, during |-> startup,
               outcome |-> IF scripts THEN "loaded" ELSE "ScriptNotFound"])
    /\ UNCHANGED <<startup, scripts, connected>>
    /\ UNCHANGED <<renderVars, execVars, thingsVars, codecVars>>

StartNext ==
    \/ IsReadySettles
    \/ RebuildSettles
    \/ Connect
    \/ CallTool

SpecStart == StartInit /\ [][StartNext]_vars

-----------------------------------------------------------------------------
(* What the destination format reads in a double-quoted literal *)

\* TRUE when some double quote of seg, read from position i on, is not
\* preceded by an escaping backslash (esc: the character at i is escaped).
RECURSIVE HasBareQuote(_, _, _)
HasBareQuote(seg, i, esc) ==
    IF i > Len(seg) THEN FALSE
    ELSE IF esc THEN HasBareQuote(seg, i + 1, FALSE)
    ELSE IF seg[i] = BS THEN HasBareQuote(seg, i + 1, TRUE)
    ELSE IF seg[i] = DQ THEN TRUE
    ELSE HasBareQuote(seg, i + 1, FALSE)

HasRawLineBreak(seg) == \E i \in 1..Len(seg) : seg[i] \in {LF, CR}

\* The part of the rendered QuotedTemplate that stands where the placeholder
\* stood: the text around the placeholder holds no placeholder of its own.
QuotedSegment == SubSeq(script, Len(QuotedPre) + 1, Len(script) - Len(QuotedPost))

\* C1: for every template whose placeholder sits inside a double-quoted
\* literal and every supplied value, the substituted segment of the script
\* buildScript returns has every double quote preceded by an escaping
\* backslash and holds no raw line break.
C1_NeverClosesLiteral ==
    (rpc = "built" /\ template = QuotedTemplate)
        => /\ ~HasBareQuote(QuotedSegment, 1, FALSE)
           /\ ~HasRawLineBreak(QuotedSegment)

-----------------------------------------------------------------------------
(* Claims about the servers and the execution engines *)

\* C2: a tool call whose arguments fail validation is answered with the
\* validation error before any osascript process was spawned for the call.
C2_ValidationBeforeSpawn ==
    (spc = "replied" /\ ~response.ok /\ response.error.ecode = "InvalidParams")
        => spawned = 0

\* parseResponse was given the text of a JSON value
DecodedJson ==
    /\ server = "jxa"
    /\ epc = "done"
    /\ proc.kind = "exit0"
    /\ ~proc.stderr.present
    /\ proc.stdout.kind = "json"

\* C3: for every JSON value v, parseResponse raises v.error.message when
\* v.success is false, returns v.data when v.success is true, and returns v
\* itself when v has no success key (arrays, numbers, strings and null too).
C3_EnvelopeRules ==
    DecodedJson =>
        LET v == proc.stdout.json
        IN  /\ v.success = "false" =>
                 /\ ~parsed.ok
                 /\ v.err.kind = "message" => parsed.error.msg = Raw(v.err.marks)
            /\ v.success = "true" => parsed = Returned(Payload(v.data))
            /\ v.success = "absent" => parsed = Returned(v)

\* C5: an engine call spawns exactly one interpreter process, none when the
\* script could not be loaded, and never a second one after a failure.
C5_OneSpawnPerCall ==
    /\ callSpawned <= 1
    /\ epc = "done" =>
          callSpawned = IF server = "jxa" /\ ~loaded THEN 0 ELSE 1

C5_FailedCallSpawnedOnce ==
    /\ spc = "replied"
    /\ proc.kind = "rejected"
    /\ ~engineResult.ok
    /\ callSpawned = 1

TimedOutForms == { "JxaTimedOut", "AsTimedOut", "OpTimedOut" }

\* C6: an engine call whose process ran past the timeout fails with an error
\* whose message says that the execution timed out, and returns no data.
C6_TimeoutIsReported ==
    (epc = "done" /\ proc.cause = "timeout" /\ proc.runMs > timeout)
        => /\ ~engineResult.ok
           /\ engineResult.error.msg.form \in TimedOutForms

\* The kind an error reports, read off the message it was built with
KindOf(error) ==
    IF error.msg.form \in TimedOutForms THEN "Timeout"
    ELSE IF error.msg.form = "NotRunning" THEN "TargetNotRunning"
    ELSE IF error.msg.form \in {"AccessDenied", "OpPermissionDenied"}
        THEN "PermissionDenied"
    ELSE IF error.msg.form = "BufferExceeded" THEN "BufferExceeded"
    ELSE "ExecutionFailed"

KindFor(cause) ==
    CASE cause = "timeout"       -> "Timeout"
      [] cause = "notRunning"    -> "TargetNotRunning"
      [] cause = "notAuthorized" -> "PermissionDenied"
      [] cause = "maxBuffer"     -> "BufferExceeded"
      [] OTHER                   -> "ExecutionFailed"

\* C7: the error an engine call raises reports the kind of its cause, so that
\* timeout, target not running, permission denied, buffer exceeded and any
\* other failure are told apart.
C7_CauseDecidesKind ==
    (epc = "done" /\ proc.kind = "rejected")
        => /\ ~engineResult.ok
           /\ KindOf(engineResult.error) = KindFor(proc.cause)

\* C9: every error JXAExecutor.execute raises names the operation in its
\* message, whatever the cause of the failure.
C9_ErrorNamesOperation ==
    (server = "jxa" /\ epc = "done" /\ ~engineResult.ok)
        => engineResult.error.msg.op = request.name

\* C10: given output that is not blank and not valid JSON, parseResponse
\* raises the Invalid JSON response error and returns no result.
C10_InvalidJsonIsDecodeError ==
    (server = "jxa" /\ epc = "done" /\ proc.kind = "exit0"
        /\ ~proc.stderr.present /\ proc.stdout.kind = "invalid")
        => /\ ~parsed.ok
           /\ parsed.error.msg.form = "InvalidJson"
           /\ ~engineResult.ok

C10_InvalidOutputDecoded ==
    /\ spc = "replied"
    /\ proc.kind = "exit0"
    /\ proc.stdout.kind = "invalid"
    /\ parsed.error.msg.form = "InvalidJson"
    /\ ~response.ok

-----------------------------------------------------------------------------
(* Claims about the operations on the Things document *)

\* An update has run on the item
Updated ==
    /\ tpc = "ran"
    /\ tparams.operation \in {"update_todo", "update_project"}
    /\ Found(tparams.operation, tparams.id, itemBefore)

\* C4: after any sequence of updates, an update without the tags key leaves
\* the tags as they were and an update with tags = [] leaves no tags; name,
\* notes, due date and activation date change only when their key is present.
C4_AbsentKeepsEmptyClears ==
    Updated =>
        /\ tparams.tags.k = "absent" => item.tagNames = itemBefore.tagNames
        /\ tparams.tags = Field("value", <<>>) => item.tagNames = <<>>
        /\ tparams.name.k = "absent" => item.name = itemBefore.name
        /\ tparams.notes.k = "absent" => item.notes = itemBefore.notes
        /\ tparams.due_date.k = "absent" => item.dueDate = itemBefore.dueDate
        /\ tparams.activation_date.k = "absent" =>
              item.activationDate = itemBefore.activationDate

C4_TagsClearedNameKept ==
    /\ Updated
    /\ response.ok
    /\ tparams.tags = Field("value", <<>>)
    /\ tparams.name.k = "absent"
    /\ itemBefore.tagNames = <<"b", ", ", "c">>
    /\ itemBefore.name = "n1"
    /\ item.tagNames = <<>>
    /\ item.name = "n1"

\* C8: an update or show of an item that does not exist completes without
\* raising; the caller receives a result with success false and a
\* *_NOT_FOUND code.
C8_NotFoundIsData ==
    (tpc = "ran" /\ ~Found(tparams.operation, tparams.id, itemBefore))
        => /\ response.ok
           /\ response.value.success = "false"
           /\ response.value.err.kind = "code"

-----------------------------------------------------------------------------
(* Claims about decoding, rendering and validation *)

\* C11: decoding output that is empty or only white space yields an empty
\* list and no error, in the JSON envelope decoder as in the positional ones.
C11_BlankDecodesToEmptyList ==
    (server = "jxa" /\ epc = "done" /\ proc.kind = "exit0"
        /\ ~proc.stderr.present /\ proc.stdout.kind = "blank")
        => /\ parsed.ok
           /\ parsed.value.t = "array"

C13_DecodedFieldIsEmittedProperty ==
    (cpc = "done" /\ codecIn.fn = "parse" /\ codecIn.how = "emitted")
        => LET dc == DecoderColumns(codecIn.entity)
               Decoded(kind, text) ==
                   CASE kind = "count" /\ text = <<"7">>      -> 7
                     [] kind = "count" /\ text = <<"1", "2">> -> 12
                     [] kind = "tags" /\ text = <<>>           -> <<>>
                     [] kind = "tags" /\ text # <<>>           -> <<<<"x">>, <<"y">>>>
                     [] OTHER -> text
           IN  /\ codecOut.ok
               /\ Len(codecOut.value) = Len(codecIn.items)
               /\ Len(dc) = Len(TemplateColumns(codecIn.entity))
               /\ \A j \in 1..Len(codecIn.items) : \A i \in 1..Len(dc) :
                      codecOut.value[j][dc[i].field]
                          = Decoded(dc[i].kind, codecIn.items[j][dc[i].from])

\* The template with every placeholder of a supplied key replaced, in one
\* pass and character for character, by the sanitized value of the key.
LiteralSubstitution(tpl, entries) ==
    LET Supplied(i) ==
            {e \in 1..Len(entries) : IsPrefixAt(tpl, i, Placeholder(entries[e][1]))}
        RECURSIVE From(_)
        From(i) ==
            IF i > Len(tpl) THEN <<>>
            ELSE IF Supplied(i) # {}
                THEN sanitizeString(entries[CHOOSE e \in Supplied(i) : TRUE][2])
                        \o From(i + 5)
            ELSE <<tpl[i]>> \o From(i + 1)
    IN  From(1)

\* C14: the script buildScript returns is the template with each placeholder
\* of a supplied key replaced by exactly the sanitized value, no part of the
\* value being read as a replacement pattern (values that hold a placeholder
\* themselves are the subject of C15).
C14_ValueReplacesPlaceholderLiterally ==
    (/\ rpc = "built"
     /\ \A e \in 1..Len(params) : \A i \in 1..Len(params[e][2]) :
            params[e][2][i] # LB)
        => script = LiteralSubstitution(template, params)

\* C15: a placeholder held by a supplied value is never replaced: the script
\* is the template with the placeholders of the template alone replaced.
C15_ValueIsNotRetemplated ==
    (/\ rpc = "built"
     /\ \E e \in 1..Len(params) : \E i \in 1..Len(params[e][2]) :
            params[e][2][i] = LB
     /\ \A e \in 1..Len(params) : \A i \in 1..Len(params[e][2]) :
            params[e][2][i] # DOLLAR)
        => script = LiteralSubstitution(template, params)

\* The text with each backslash doubled, each double quote prefixed by a
\* backslash, each line break (LF, CR LF or CR) turned into backslash-n and
\* each tab into backslash-t, everything else kept.
RECURSIVE EscapedForLiteral(_)
EscapedForLiteral(s) ==
    IF s = <<>> THEN <<>>
    ELSE IF Head(s) = CR /\ Len(s) >= 2 /\ s[2] = LF
        THEN <<BS, "n">> \o EscapedForLiteral(Tail(Tail(s)))
    ELSE (CASE Head(s) = BS         -> <<BS, BS>>
            [] Head(s) = DQ         -> <<BS, DQ>>
            [] Head(s) \in {LF, CR} -> <<BS, "n">>
            [] Head(s) = TAB        -> <<BS, "t">>
            [] OTHER                -> <<Head(s)>>)
         \o EscapedForLiteral(Tail(s))

\* C16: what sanitizeString makes of each supplied value is the value with
\* backslashes doubled, double quotes escaped, line breaks (a carriage
\* return alone included) and tabs turned into their tokens, and every other
\* character, the apostrophe included, unchanged.
C16_SanitizeEscapesExactly ==
    rpc = "built"
        => \A e \in 1..Len(params) :
              sanitizeString(params[e][2]) = EscapedForLiteral(params[e][2])

\* C17: validateStringInput accepts a string that is not empty, is within
\* the length limit and holds a double quote or an apostrophe (and no
\* backslash), and returns it unchanged.
C17_QuotesAreAccepted ==
    (/\ cpc = "done"
     /\ codecIn.fn = "validateStringInput"
     /\ codecIn.how = "string"
     /\ Len(codecIn.text) \in 1..maxLength
     /\ \E i \in 1..Len(codecIn.text) : codecIn.text[i] \in {DQ, SQ}
     /\ \A i \in 1..Len(codecIn.text) : codecIn.text[i] # BS)
        => codecOut = Returned(codecIn.text)

\* The text holds the word osascript, in any letter case
NamesInterpreter(text) ==
    LET word == <<"o", "s", "a", "s", "c", "r", "i", "p", "t">>
        Lower(c) == CASE c = "O" -> "o" [] c = "S" -> "s" [] c = "A" -> "a"
                      [] c = "C" -> "c" [] c = "R" -> "r" [] c = "I" -> "i"
                      [] c = "P" -> "p" [] c = "T" -> "t" [] OTHER -> c
    IN  \E i \in 1..Len(text) :
           /\ i + Len(word) - 1 <= Len(text)
           /\ \A j \in 1..Len(word) : Lower(text[i + j - 1]) = word[j]

\* C18: validateStringInput rejects, with an invalid-parameters error, every
\* string that holds a dangerous pattern (here: osascript), in any letter
\* case and whatever else the string holds.
C18_DangerousIsRejected ==
    (/\ cpc = "done"
     /\ codecIn.fn = "validateStringInput"
     /\ codecIn.how = "string"
     /\ NamesInterpreter(codecIn.text))
        => /\ ~codecOut.ok
           /\ codecOut.error.ecode = "InvalidParams"

\* The value is a text YYYY-MM-DD that names a day of the calendar
RealDate(in) ==
    LET s == in.text
        Val(c) == CASE c = "0" -> 0 [] c = "1" -> 1 [] c = "2" -> 2
                    [] c = "3" -> 3 [] c = "4" -> 4 [] c = "5" -> 5
                    [] c = "6" -> 6 [] c = "7" -> 7 [] c = "8" -> 8
                    [] c = "9" -> 9 [] OTHER -> -1
        y == 1000 * Val(s[1]) + 100 * Val(s[2]) + 10 * Val(s[3]) + Val(s[4])
        m == 10 * Val(s[6]) + Val(s[7])
        d == 10 * Val(s[9]) + Val(s[10])
        last == IF m = 2
                    THEN (IF y % 4 = 0 /\ (y % 100 # 0 \/ y % 400 = 0) THEN 29 ELSE 28)
                ELSE IF m \in {4, 6, 9, 11} THEN 30 ELSE 31
    IN  /\ in.how = "string"
        /\ Len(s) = 10
        /\ s[5] = "-" /\ s[8] = "-"
        /\ \A i \in {1, 2, 3, 4, 6, 7, 9, 10} : Val(s[i]) >= 0
        /\ m \in 1..12
        /\ d \in 1..last

\* The value is a text YYYY-MM-DD that names a day of the calendar in a year
\* from 1904 to 2040.
SupportedDate(in) ==
    /\ RealDate(in)
    /\ \/ in.text[1] = "1" /\ in.text[2] = "9"
          /\ <<in.text[3], in.text[4]>> \notin {<<"0", "0">>, <<"0", "1">>,
                                                <<"0", "2">>, <<"0", "3">>}
       \/ in.text[1] = "2" /\ in.text[2] = "0"
          /\ in.text[3] \in {"0", "1", "2", "3"}
       \/ SubSeq(in.text, 1, 4) = <<"2", "0", "4", "0">>

\* C19: a value that is not a text YYYY-MM-DD naming a real day of the
\* calendar in a year from 1904 to 2040 is rejected by validateDateInput,
\* with an invalid-parameters error, and by toAppleScriptDate.
C19_OnlySupportedDatesPass ==
    (/\ cpc = "done"
     /\ codecIn.fn \in {"validateDateInput", "toAppleScriptDate"}
     /\ ~SupportedDate(codecIn))
        => /\ ~codecOut.ok
           /\ codecIn.fn = "validateDateInput"
                => codecOut.error.ecode = "InvalidParams"

\* C20: a text YYYY-MM-DD naming a real day of the calendar in a year from
\* 1904 to 2040 is returned by validateDateInput and turned by
\* toAppleScriptDate into the name of its month, its day without a leading
\* zero, a comma and its year.
C20_SupportedDateIsFormatted ==
    (cpc = "done" /\ SupportedDate(codecIn))
        => LET s == codecIn.text
               month == CASE SubSeq(s, 6, 7) = <<"0", "1">> -> "January"
                          [] SubSeq(s, 6, 7) = <<"0", "2">> -> "February"
                          [] SubSeq(s, 6, 7) = <<"0", "3">> -> "March"
                          [] SubSeq(s, 6, 7) = <<"0", "4">> -> "April"
                          [] SubSeq(s, 6, 7) = <<"0", "5">> -> "May"
                          [] SubSeq(s, 6, 7) = <<"0", "6">> -> "June"
                          [] SubSeq(s, 6, 7) = <<"0", "7">> -> "July"
                          [] SubSeq(s, 6, 7) = <<"0", "8">> -> "August"
                          [] SubSeq(s, 6, 7) = <<"0", "9">> -> "September"
                          [] SubSeq(s, 6, 7) = <<"1", "0">> -> "October"
                          [] SubSeq(s, 6, 7) = <<"1", "1">> -> "November"
                          [] SubSeq(s, 6, 7) = <<"1", "2">> -> "December"
               day == IF s[9] = "0" THEN <<s[10]>> ELSE SubSeq(s, 9, 10)
           IN  /\ codecIn.fn = "validateDateInput" => codecOut = Returned(s)
               /\ codecIn.fn = "toAppleScriptDate"
                    => codecOut = Returned(<<month, " ">> \o day \o <<",", " ">>
                                              \o SubSeq(s, 1, 4))

\* The leap day of 2024 was formatted
C20_LeapDayFormatted ==
    /\ cpc = "done"
    /\ codecIn.fn = "toAppleScriptDate"
    /\ codecIn.text = <<"2", "0", "2", "4", "-", "0", "2", "-", "2", "9">>
    /\ codecOut = Returned(<<"February", " ", "2", "9", ",", " ", "2", "0", "2", "4">>)

-----------------------------------------------------------------------------
(* Claims about tags, dates and parameters *)

\* C21 as stated: for every list of tag names without a comma, parseTags of
\* formatTags of the list is the list: the same names in the same order.
C21_TagsRoundTrip ==
    (cpc = "done" /\ codecIn.fn = "parseTags")
        => codecOut = Returned(codecIn.items)

\* C21: for every list of tag names that are not empty, hold no comma and
\* neither begin nor end with white space, parseTags of formatTags of the
\* list is the list: the same names in the same order.
C21_TrimmedTagsRoundTrip ==
    (/\ cpc = "done"
     /\ codecIn.fn = "parseTags"
     /\ \A i \in 1..Len(codecIn.items) :
            /\ codecIn.items[i] # <<>>
            /\ Head(codecIn.items[i]) \notin WhiteSpace
            /\ codecIn.items[i][Len(codecIn.items[i])] \notin WhiteSpace)
        => codecOut = Returned(codecIn.items)

\* Two names, one of them of two words, came back as they went in
C21_TwoNamesCameBack ==
    /\ cpc = "done"
    /\ codecIn.fn = "parseTags"
    /\ codecIn.items = <<<<"a", " ", "b">>, <<"b", "c">>>>
    /\ codecOut = Returned(codecIn.items)

\* A script was made for one of the tools that create and update
Rendered ==
    /\ cpc = "done"
    /\ codecIn.fn \in {"createTodo", "createProject", "updateTodo"}
    /\ codecOut.ok

\* The text holds the phrase at some place
Holds(text, phrase) ==
    \E i \in 1..Len(text) :
       /\ i + Len(phrase) - 1 <= Len(text)
       /\ \A j \in 1..Len(phrase) : text[i + j - 1] = phrase[j]

\* C22: the script made for mapped parameters with an activation date (here
\* 2025-07-17) holds a schedule command for the item with the date written
\* July 17, 2025, and no direct assignment of the activation date.
C22_ActivationDateIsScheduled ==
    (Rendered /\ codecIn.items.activation_date.k = "value")
        => /\ \E var \in {"newTodo", "newProject", "targetTodo"} :
                 Holds(codecOut.value,
                       <<"schedule ", var, " for date ", DQ, "July", " ", "1", "7",
                         ",", " ", "2", "0", "2", "5", DQ>>)
           /\ \A i \in 1..Len(codecOut.value) :
                 codecOut.value[i] \notin {"set activation date of targetTodo to date ",
                                           ", activation date: date "}

\* C23: the script updateTodo makes for tags equal to the empty array sets,
\* inside a try block, the tag names of the item to the empty list; made
\* without a tags key, or with tags null, it holds no tag command.
C23_EmptyTagsClearAbsentTagsKeep ==
    (Rendered /\ codecIn.fn = "updateTodo")
        => /\ (codecIn.items.tags.k = "value" /\ codecIn.items.tags.v = <<>>)
                => Holds(codecOut.value,
                         <<"try", "set tag names of ", "targetTodo", " to ", "{", "}">>)
           /\ codecIn.items.tags.k \in {"absent", "null"}
                => \A i \in 1..Len(codecOut.value) :
                      codecOut.value[i] # "set tag names of "

\* C26: no placeholder is left in a script handed to the interpreter
C26_NoPlaceholderLeft ==
    Rendered => ~Holds(codecOut.value, <<LB, LB>>)

\* C25: for a string that is not a real day of the calendar written
\* YYYY-MM-DD, parseLocalDate returns null or a Date that is not valid, or
\* throws: it returns no valid Date.
C25_NoDateForImpossibleDay ==
    (/\ cpc = "done"
     /\ codecIn.fn = "parseLocalDate"
     /\ codecIn.how = "string"
     /\ ~RealDate(codecIn))
        => \/ ~codecOut.ok
           \/ codecOut.value.null
           \/ ~codecOut.value.valid

\* C29: every value validateStringInput returns is a string that is not
\* empty and has at most maxLength characters; an input of white space only
\* is not accepted.
C29_ReturnsNonEmptyString ==
    (/\ cpc = "done"
     /\ codecIn.fn = "validateStringInput"
     /\ codecOut.ok)
        => /\ codecOut.value # <<>>
           /\ Len(codecOut.value) <= maxLength

\* C28: update of a to-do and of a project sets the status to completed when
\* completed is true, otherwise to canceled when canceled is true, and
\* otherwise leaves it as it was: with both flags true the item ends
\* completed, and no update returns a completed or canceled item to open.
C28_StatusOnlyMovesForward ==
    /\ [](tpc = "ran" =>
            item.status =
                IF ~Found(tparams.operation, tparams.id, itemBefore)
                       \/ tparams.operation \notin {"update_todo", "update_project"}
                    THEN itemBefore.status
                ELSE IF tparams.completed = Field("value", "true") THEN "completed"
                ELSE IF tparams.canceled = Field("value", "true") THEN "canceled"
                ELSE itemBefore.status)
    /\ [][item.status # "open" => item'.status # "open"]_vars

\* A canceled item was updated with both flags true and ended completed
C28_CanceledThenBothFlags ==
    /\ tpc = "ran"
    /\ itemBefore.status = "canceled"
    /\ tparams.completed = Field("value", "true")
    /\ tparams.canceled = Field("value", "true")
    /\ item.status = "completed"

\* C30: searchAdvanced returns each to-do at most once, whichever of the
\* flags completed, canceled and trashed are set.
C30_EachTodoAtMostOnce ==
    (cpc = "done" /\ codecIn.fn = "searchAdvanced")
        => \A i, j \in 1..Len(codecOut.value) :
              codecOut.value[i].id = codecOut.value[j].id => i = j

C27_NoToolCallBeforeScriptsReady ==
    \A i \in 1..Len(toolCalls) : toolCalls[i].during = "finished"

=============================================================================
